---- MODULE Spec2Model ----
(***************************************************************************)
(* Model of the Cluedo knowledge base and deduction engine                 *)
(* (src/ai_knowledge.py), driven by the refutation protocol of             *)
(* SimpleCluedo.make_suggestion (src/cluedo.py) over a sealed deal.        *)
(*                                                                         *)
(* The card universe is a reduced copy of src/data.py: two cards per       *)
(* category instead of 6/6/9.  The code never looks at a card's name       *)
(* beyond its category, so the reduction keeps every branch of the code.   *)
(***************************************************************************)
EXTENDS Integers, Sequences, FiniteSets, TLC

\* ------------------------------------------------------------------ data
CHARACTERS == {"Scarlett", "Mustard"}
WEAPONS == {"Candlestick", "Dagger"}
ROOMS == {"Study", "Hall"}
all_cards == CHARACTERS \cup WEAPONS \cup ROOMS

\* KnowledgeBase(ai_player_number = 1, num_players = 3)
ai_player_number == 1
num_players == 3
Players == 1..num_players

\* Python's None for a refuter (a player number) and for a shown card.
NoPlayer == 0
NoCard == "None"

\* Python's None for player['in_room']: the player stands in a hallway.
NoRoom == "Hallway"

\* A player number that is no key of player_has, and a card name that is in
\* none of CHARACTERS, WEAPONS and ROOMS.
UnknownPlayer == num_players + 1
UnknownCard == "Unknown"

max_iterations == 20

\* SimpleCluedo.play: turn < 100
max_turns == 100

\* The number of suggestion events of one run of the model: MaxEvents over
\* every deal (Spec), DeepEvents over the deals of one sealed triple (SpecDeep),
\* ApiEvents over direct calls of the handlers with any arguments (SpecApi),
\* MalformedEvents over calls that may name an unknown player or card
\* (SpecMalformed), GameEvents over the turns of SimpleCluedo.play (SpecGame).
MaxEvents == 2
DeepEvents == 3
ApiEvents == 2
MalformedEvents == 1
GameEvents == 2
GameTurns == 5
TableEvents == 2
PlayEvents == 1

VARIABLES
    solution,                  \* the sealed envelope: [character, weapon, room]
    hands,                     \* players[i]['cards'], as a set per player
    dealt,                     \* receive_cards has run
    budget,                    \* the number of suggestion events this run explores
    horizon,                   \* the number of turns of play this run explores
    my_cards,
    player_has,
    player_lacks,
    possible_characters,
    possible_weapons,
    possible_rooms,
    suggestion_history,
    at_least_one_constraints,
    steps,                     \* the stages of the last handler call: the direct
                               \* facts, then every rule application of run_deduction,
                               \* each with the knowledge before and after it
    raised,                    \* the last call ended in an exception instead of
                               \* returning
    current_player,            \* SimpleCluedo.current_player, as a player number
    has_accused,               \* players[i]['has_accused']
    eliminated,                \* players[i]['eliminated']
    game_over,
    accusation,                \* the last accusation made: <<player, character,
                               \* weapon, room>>, or <<>> before the first one
    turn,                      \* the local turn of SimpleCluedo.play
    accusations_made,          \* the calls of make_accusation, per player
    last_turn,                 \* the last play_turn: the calls of make_suggestion
                               \* it made (suggestions), the room its movement
                               \* ended in (entered), and whether it returned at
                               \* once because the player is eliminated (skipped)
    shown_card                 \* card_shown of the last make_suggestion: the card
                               \* the refuter showed the suggester, NoCard if
                               \* nobody refuted

\* The state of SimpleCluedo's turn loop.
game == <<current_player, has_accused, eliminated, game_over, accusation,
          turn, accusations_made, last_turn>>

vars == <<solution, hands, dealt, budget, horizon, my_cards, player_has, player_lacks,
          possible_characters, possible_weapons, possible_rooms,
          suggestion_history, at_least_one_constraints, steps, raised, game,
          shown_card>>

\* The knowledge base as one value, for the operators below.
KB == [my_cards |-> my_cards,
       player_has |-> player_has,
       player_lacks |-> player_lacks,
       possible_characters |-> possible_characters,
       possible_weapons |-> possible_weapons,
       possible_rooms |-> possible_rooms,
       suggestion_history |-> suggestion_history,
       at_least_one_constraints |-> at_least_one_constraints]

\* KnowledgeBase.__init__
NewKB == [my_cards |-> {},
          player_has |-> [p \in Players |-> {}],
          player_lacks |-> [p \in Players |-> {}],
          possible_characters |-> CHARACTERS,
          possible_weapons |-> WEAPONS,
          possible_rooms |-> ROOMS,
          suggestion_history |-> <<>>,
          at_least_one_constraints |-> <<>>]

\* ------------------------------------------------- card tracking methods
eliminate_from_solution(k, card) ==
    IF card \in CHARACTERS
    THEN [k EXCEPT !.possible_characters = @ \ {card}]
    ELSE IF card \in WEAPONS
    THEN [k EXCEPT !.possible_weapons = @ \ {card}]
    ELSE IF card \in ROOMS
    THEN [k EXCEPT !.possible_rooms = @ \ {card}]
    ELSE k

\* add_own_card without the elimination of the card.
add_own_card_keeps_candidate(k, card) ==
    [k EXCEPT !.my_cards = @ \cup {card},
              !.player_has[ai_player_number] = @ \cup {card}]

add_own_card(k, card) ==
    eliminate_from_solution(
        [k EXCEPT !.my_cards = @ \cup {card},
                  !.player_has[ai_player_number] = @ \cup {card}],
        card)

RECURSIVE add_own_cards(_, _)
add_own_cards(k, cards) ==
    IF cards = {} THEN k
    ELSE LET card == CHOOSE c \in cards : TRUE
         IN add_own_cards(add_own_card(k, card), cards \ {card})

\* mark_player_has_card with add in place of discard on player_lacks.
mark_player_has_card_adds_lack(k, player_num, card) ==
    LET k1 == [k EXCEPT !.player_has[player_num] = @ \cup {card}]
        k2 == eliminate_from_solution(k1, card)
    IN [k2 EXCEPT !.player_lacks[player_num] = @ \cup {card}]

\* mark_player_has_card without the elimination of the card.
mark_player_has_card_keeps_candidate(k, player_num, card) ==
    [k EXCEPT !.player_has[player_num] = @ \cup {card},
              !.player_lacks[player_num] = @ \ {card}]

\* mark_player_has_card that only clears the lacks fact when there is one, and
\* records the holder otherwise.
mark_player_has_card_clears_first(k, player_num, card) ==
    IF card \in k.player_lacks[player_num]
    THEN [k EXCEPT !.player_lacks[player_num] = @ \ {card}]
    ELSE eliminate_from_solution(
             [k EXCEPT !.player_has[player_num] = @ \cup {card}], card)

\* mark_player_has_card that also records that every other player lacks the
\* card.
mark_player_has_card_excludes_others(k, player_num, card) ==
    LET k1 == [k EXCEPT !.player_has[player_num] = @ \cup {card}]
        k2 == eliminate_from_solution(k1, card)
    IN [k2 EXCEPT !.player_lacks =
            [p \in Players |->
                IF p = player_num THEN k2.player_lacks[p] \ {card}
                ELSE IF card \in k2.player_has[p] THEN k2.player_lacks[p]
                ELSE k2.player_lacks[p] \cup {card}]]

mark_player_has_card(k, player_num, card) ==
    LET k1 == [k EXCEPT !.player_has[player_num] = @ \cup {card}]
        k2 == eliminate_from_solution(k1, card)
    IN [k2 EXCEPT !.player_lacks[player_num] = @ \ {card}]

\* mark_player_lacks_card that also takes the card out of the possible sets.
mark_player_lacks_card_eliminates(k, player_num, card) ==
    IF card \notin k.player_has[player_num]
    THEN eliminate_from_solution(
             [k EXCEPT !.player_lacks[player_num] = @ \cup {card}], card)
    ELSE k

mark_player_lacks_card(k, player_num, card) ==
    IF card \notin k.player_has[player_num]
    THEN [k EXCEPT !.player_lacks[player_num] = @ \cup {card}]
    ELSE k

RECURSIVE mark_player_lacks_cards(_, _, _)
mark_player_lacks_cards(k, player_num, cards) ==
    IF cards = {} THEN k
    ELSE LET card == CHOOSE c \in cards : TRUE
         IN mark_player_lacks_cards(mark_player_lacks_card(k, player_num, card),
                                    player_num, cards \ {card})

\* self.player_has.get(player_num, set()) and self.player_lacks.get(player_num,
\* set()): the empty set for a player the dictionaries have no key for.
player_has_get(k, player_num) ==
    IF player_num \in Players THEN k.player_has[player_num] ELSE {}

player_lacks_get(k, player_num) ==
    IF player_num \in Players THEN k.player_lacks[player_num] ELSE {}

\* ------------------------------------------------------ solution tracking
\* is_solution_known that accepts any three non-empty possible sets.
is_solution_known_nonempty(k) ==
    /\ Cardinality(k.possible_characters) >= 1
    /\ Cardinality(k.possible_weapons) >= 1
    /\ Cardinality(k.possible_rooms) >= 1

is_solution_known(k) ==
    /\ Cardinality(k.possible_characters) = 1
    /\ Cardinality(k.possible_weapons) = 1
    /\ Cardinality(k.possible_rooms) = 1

\* get_solution: None unless the solution is known.
get_solution(k) ==
    IF ~is_solution_known(k) THEN <<>>
    ELSE <<CHOOSE c \in k.possible_characters : TRUE,
           CHOOSE w \in k.possible_weapons : TRUE,
           CHOOSE r \in k.possible_rooms : TRUE>>

\* ---------------------------------------------------- suggestion history
\* record_suggestion that stores an empty players_who_passed.
record_suggestion_forgets_passers(k, suggester, character, weapon, room, refuter, card_shown, players_who_passed) ==
    [k EXCEPT !.suggestion_history = Append(@,
        [suggester |-> suggester,
         character |-> character,
         weapon |-> weapon,
         room |-> room,
         refuter |-> refuter,
         card_shown |-> card_shown,
         players_who_passed |-> <<>>])]

record_suggestion(k, suggester, character, weapon, room, refuter, card_shown, players_who_passed) ==
    [k EXCEPT !.suggestion_history = Append(@,
        [suggester |-> suggester,
         character |-> character,
         weapon |-> weapon,
         room |-> room,
         refuter |-> refuter,
         card_shown |-> card_shown,
         players_who_passed |-> players_who_passed])]

\* add_constraint without the known_overlap test.
add_constraint_unconditional(k, player_num, possible_cards) ==
    [k EXCEPT !.at_least_one_constraints =
         Append(@, [player |-> player_num, cards |-> possible_cards])]

add_constraint(k, player_num, possible_cards) ==
    IF k.player_has[player_num] \cap possible_cards # {}
    THEN k
    ELSE [k EXCEPT !.at_least_one_constraints =
              Append(@, [player |-> player_num, cards |-> possible_cards])]

\* The bulk operation the four collapse sites inline: the three possible sets
\* are force-set to the suggested triple, then every other card of each
\* category is eliminated.
RECURSIVE eliminate_all(_, _)
eliminate_all(k, cards) ==
    IF cards = {} THEN k
    ELSE LET card == CHOOSE c \in cards : TRUE
         IN eliminate_all(eliminate_from_solution(k, card), cards \ {card})

\* collapse_to with each possible set assigned the whole suggestion.
collapse_to_suggestion_cards(k, character, weapon, room) ==
    eliminate_all(
        [k EXCEPT !.possible_characters = {character, weapon, room},
                  !.possible_weapons = {character, weapon, room},
                  !.possible_rooms = {character, weapon, room}],
        all_cards \ {character, weapon, room})

collapse_to(k, character, weapon, room) ==
    eliminate_all(
        [k EXCEPT !.possible_characters = {character},
                  !.possible_weapons = {weapon},
                  !.possible_rooms = {room}],
        all_cards \ {character, weapon, room})

\* ai_has_any = bool(suggestion_cards & self.my_cards)
ai_has_any_unchecked(k, suggestion_cards) == FALSE

ai_has_any_inverted(k, suggestion_cards) == suggestion_cards \cap k.my_cards = {}

ai_has_any(k, suggestion_cards) == suggestion_cards \cap k.my_cards # {}

possible_is(k, character, weapon, room) ==
    /\ k.possible_characters = {character}
    /\ k.possible_weapons = {weapon}
    /\ k.possible_rooms = {room}

\* ------------------------------------------------------ deduction rules
Unchanged(k) == [kb |-> k, changed |-> FALSE]
Changed(k) == [kb |-> k, changed |-> TRUE]

\* replay_suggestion that stops after the branch of the AI's own suggestions.
replay_suggestion_own_only(k, suggestion) ==
    IF suggestion.refuter # NoPlayer THEN Unchanged(k)
    ELSE IF ai_has_any(k, {suggestion.character, suggestion.weapon,
                           suggestion.room})
    THEN Unchanged(k)
    ELSE IF /\ suggestion.suggester = ai_player_number
            /\ ~possible_is(k, suggestion.character, suggestion.weapon,
                            suggestion.room)
    THEN Changed(collapse_to(k, suggestion.character, suggestion.weapon,
                             suggestion.room))
    ELSE Unchanged(k)

\* One iteration of the loop of _infer_solution_from_no_refutes.
replay_suggestion(k, suggestion) ==
    LET character == suggestion.character
        weapon == suggestion.weapon
        room == suggestion.room
        suggester == suggestion.suggester
        suggestion_cards == {character, weapon, room}
        suggester_has == suggestion_cards \cap player_has_get(k, suggester)
        suggester_lacks_all ==
            Cardinality(suggestion_cards \cap player_lacks_get(k, suggester)) = 3
    IN IF suggestion.refuter # NoPlayer THEN Unchanged(k)
       ELSE IF ai_has_any(k, suggestion_cards) THEN Unchanged(k)
       ELSE IF /\ suggester = ai_player_number
               /\ ~possible_is(k, character, weapon, room)
       THEN Changed(collapse_to(k, character, weapon, room))
       ELSE IF /\ suggester_lacks_all
               /\ suggester_has = {}
               /\ ~possible_is(k, character, weapon, room)
       THEN Changed(collapse_to(k, character, weapon, room))
       ELSE Unchanged(k)

Or(r, changed) == [kb |-> r.kb, changed |-> r.changed \/ changed]

\* The loop of _infer_solution_from_no_refutes over suggestion_history[i..].
RECURSIVE replay_from(_, _)
replay_from(r, i) ==
    IF i > Len(r.kb.suggestion_history) THEN r
    ELSE replay_from(
             Or(replay_suggestion(r.kb, r.kb.suggestion_history[i]), r.changed),
             i + 1)

infer_solution_from_no_refutes(k) == replay_from(Unchanged(k), 1)

solution_candidates(k) ==
    k.possible_characters \cup k.possible_weapons \cup k.possible_rooms

\* still_possible that keeps the cards other players are known to hold.
still_possible_keeps_held(k, player_num, possible_cards) ==
    possible_cards \ k.player_lacks[player_num]

\* still_possible of _resolve_constraints: the constraint's cards minus the
\* cards the player lacks minus the cards another player is known to hold.
still_possible(k, player_num, possible_cards) ==
    (possible_cards \ k.player_lacks[player_num])
        \ UNION {k.player_has[other] : other \in Players \ {player_num}}

\* non_solution_cards with the wrong set operation, and without the filter.
non_solution_cards_inverted(still, candidates) == still \cap candidates

non_solution_cards_unfiltered(still, candidates) == still

non_solution_cards(still, candidates) == still \ candidates

\* The branches of the loop body of _resolve_constraints. acc carries the
\* knowledge base, remaining_constraints and the changed flag.
keep_constraint(acc, player_num, still) ==
    [acc EXCEPT !.remaining_constraints =
         Append(@, [player |-> player_num, cards |-> still])]

\* resolve_to_card that records the card with add_own_card.
resolve_to_card_as_own(acc, player_num, card) ==
    IF card \notin acc.kb.player_has[player_num]
    THEN [acc EXCEPT !.kb = add_own_card(@, card), !.changed = TRUE]
    ELSE acc

resolve_to_card(acc, player_num, card) ==
    IF card \notin acc.kb.player_has[player_num]
    THEN [acc EXCEPT !.kb = mark_player_has_card(@, player_num, card),
                     !.changed = TRUE]
    ELSE acc

resolve_constraint(acc, player_num, still, non_solution) ==
    IF Cardinality(non_solution) = 0
    THEN IF still # {} THEN keep_constraint(acc, player_num, still) ELSE acc
    ELSE IF Cardinality(non_solution) = 1
    THEN resolve_to_card(acc, player_num, CHOOSE c \in non_solution : TRUE)
    ELSE keep_constraint(acc, player_num, still)

resolve_still(acc, player_num, still, candidates) ==
    resolve_constraint(acc, player_num, still,
                       non_solution_cards(still, candidates))

\* The loop of _resolve_constraints from constraint i on; candidates is the
\* snapshot of the solution candidates taken before the loop.
RECURSIVE resolve_from(_, _, _)
resolve_from(acc, i, candidates) ==
    IF i > Len(acc.kb.at_least_one_constraints)
    THEN [kb |-> [acc.kb EXCEPT !.at_least_one_constraints =
                      acc.remaining_constraints],
          changed |-> acc.changed]
    ELSE resolve_from(
             resolve_still(acc, acc.kb.at_least_one_constraints[i].player,
                 still_possible(acc.kb,
                                acc.kb.at_least_one_constraints[i].player,
                                acc.kb.at_least_one_constraints[i].cards),
                 candidates),
             i + 1, candidates)

resolve_constraints(k) ==
    resolve_from([kb |-> k, remaining_constraints |-> <<>>, changed |-> FALSE],
                 1, solution_candidates(k))

\* is_solution_candidate never consulted.
is_solution_candidate_ignored(k, card) == FALSE

is_solution_candidate(k, card) ==
    \/ card \in k.possible_characters
    \/ card \in k.possible_weapons
    \/ card \in k.possible_rooms

\* possible_holders without the skip of the AI's own number.
possible_holders_with_viewer(k, card) ==
    {player_num \in Players : card \notin k.player_lacks[player_num]}

possible_holders(k, card) ==
    {player_num \in Players :
        /\ player_num # ai_player_number
        /\ card \notin k.player_lacks[player_num]}

\* One iteration of the loop of _infer_unique_holder.
unique_holder_of(k, card) ==
    IF \E p \in Players : card \in k.player_has[p] THEN Unchanged(k)
    ELSE IF card \in k.my_cards THEN Unchanged(k)
    ELSE IF /\ Cardinality(possible_holders(k, card)) = 1
            /\ ~is_solution_candidate(k, card)
    THEN Changed(mark_player_has_card(
             k, CHOOSE p \in possible_holders(k, card) : TRUE, card))
    ELSE Unchanged(k)

RECURSIVE unique_holder_over(_, _)
unique_holder_over(r, cards) ==
    IF cards = {} THEN r
    ELSE LET card == CHOOSE c \in cards : TRUE
         IN unique_holder_over(Or(unique_holder_of(r.kb, card), r.changed),
                               cards \ {card})

infer_unique_holder(k) == unique_holder_over(Unchanged(k), all_cards)

\* ------------------------------------------------------ fixed-point driver
Step(rule, before, r, collapse) ==
    [rule |-> rule, before |-> before, after |-> r.kb,
     changed |-> r.changed, collapse |-> collapse]

\* One pass of the while loop of run_deduction: a, b and c are the results of
\* the three rules, applied in this order.
pass_result(k, a, b, c) ==
    [kb |-> c.kb,
     changed |-> a.changed \/ b.changed \/ c.changed,
     steps |-> <<Step("replay", k, a, a.changed),
                 Step("resolve", a.kb, b, FALSE),
                 Step("unique", b.kb, c, FALSE)>>]

pass_unique(k, a, b) == pass_result(k, a, b, infer_unique_holder(b.kb))

pass_resolve(k, a) == pass_unique(k, a, resolve_constraints(a.kb))

deduction_pass(k) == pass_resolve(k, infer_solution_from_no_refutes(k))

RECURSIVE deduction_loop(_, _, _)
RECURSIVE loop_after(_, _, _)
RECURSIVE loop_after_one_pass(_, _, _)
RECURSIVE deduction_loop_one_more(_, _, _)

\* The loop with <= in place of < in its guard.
deduction_loop_one_more(k, iterations, done) ==
    IF iterations <= max_iterations
    THEN loop_after(deduction_pass(k), iterations + 1, done)
    ELSE [kb |-> k, iterations |-> iterations, steps |-> done]

\* while changed and iterations < max_iterations
deduction_loop(k, iterations, done) ==
    IF iterations < max_iterations
    THEN loop_after(deduction_pass(k), iterations + 1, done)
    ELSE [kb |-> k, iterations |-> iterations, steps |-> done]

\* The loop left after its first pass, whatever the pass changed.
loop_after_one_pass(p, iterations, done) ==
    [kb |-> p.kb, iterations |-> iterations, steps |-> done \o p.steps]

loop_after(p, iterations, done) ==
    IF p.changed
    THEN deduction_loop(p.kb, iterations, done \o p.steps)
    ELSE [kb |-> p.kb, iterations |-> iterations, steps |-> done \o p.steps]

run_deduction(k) == deduction_loop(k, 0, <<>>)

\* --------------------------------------------------------- event handlers
RECURSIVE mark_passers(_, _, _, _)
mark_passers(k, players, cards, skip) ==
    IF players = <<>> THEN k
    ELSE mark_passers(
             IF Head(players) \in skip THEN k
             ELSE mark_player_lacks_cards(k, Head(players), cards),
             Tail(players), cards, skip)

\* The players a loop over players_who_passed gets through: mark_player_lacks_card
\* reads self.player_has[player], a KeyError for a player outside
\* 1..num_players, which ends the loop and the handler.
RECURSIVE marked_before_KeyError(_, _)
marked_before_KeyError(players, skip) ==
    IF players = <<>> THEN <<>>
    ELSE IF Head(players) \notin skip /\ Head(players) \notin Players THEN <<>>
    ELSE <<Head(players)>> \o marked_before_KeyError(Tail(players), skip)

\* A handler left by a KeyError: the facts recorded up to the failing statement
\* stay, run_deduction is not reached.
Raised(k, facts) ==
    [kb |-> facts,
     iterations |-> 0,
     raised |-> TRUE,
     steps |-> <<Step("event", k, Changed(facts), FALSE)>>]

\* A handler's result: the direct facts as the first step, then the steps of
\* run_deduction. No handler, rule or card tracking method has a raise
\* statement: the only exception is the KeyError of a player number that is
\* not a key of player_has and player_lacks.
handled_with(k, facts, collapse, d) ==
    [kb |-> d.kb,
     iterations |-> d.iterations,
     raised |-> FALSE,
     steps |-> <<Step("event", k, Changed(facts), collapse)>> \o d.steps]

Handled(k, facts, collapse) ==
    handled_with(k, facts, collapse, run_deduction(facts))

\* process_ai_suggestion_refuted without the loop over players_who_passed.
process_ai_suggestion_refuted_ignores_passers(k, character, weapon, room, refuter, card_shown, players_who_passed) ==
    Handled(k, mark_player_has_card(
                   record_suggestion(k, ai_player_number, character, weapon,
                                     room, refuter, card_shown,
                                     players_who_passed),
                   refuter, card_shown),
            FALSE)

process_ai_suggestion_refuted(k, character, weapon, room, refuter, card_shown, players_who_passed) ==
    LET suggestion_cards == {character, weapon, room}
        k1 == record_suggestion(k, ai_player_number, character, weapon, room,
                                refuter, card_shown, players_who_passed)
        k2 == mark_player_has_card(k1, refuter, card_shown)
        marked == marked_before_KeyError(players_who_passed, {})
        k3 == mark_passers(k2, marked, suggestion_cards, {})
    IN IF refuter \notin Players THEN Raised(k, k1)
       ELSE IF marked # players_who_passed THEN Raised(k, k3)
       ELSE Handled(k, k3, FALSE)

process_ai_suggestion_not_refuted(k, character, weapon, room, players_checked) ==
    LET suggestion_cards == {character, weapon, room}
        k1 == record_suggestion(k, ai_player_number, character, weapon, room,
                                NoPlayer, NoCard, players_checked)
        marked == marked_before_KeyError(players_checked, {})
        k2 == mark_passers(k1, marked, suggestion_cards, {})
    IN IF marked # players_checked THEN Raised(k, k2)
       ELSE IF ~ai_has_any(k2, suggestion_cards)
       THEN Handled(k, collapse_to(k2, character, weapon, room), TRUE)
       ELSE Handled(k, k2, FALSE)

process_other_suggestion_refuted(k, suggester, character, weapon, room, refuter, card_shown, players_who_passed) ==
    LET suggestion_cards == {character, weapon, room}
        k1 == record_suggestion(k, suggester, character, weapon, room,
                                refuter, card_shown, players_who_passed)
        k2 == IF card_shown # NoCard
              THEN mark_player_has_card(k1, refuter, card_shown)
              ELSE k1
        marked == marked_before_KeyError(players_who_passed, {ai_player_number})
        k3 == mark_passers(k2, marked, suggestion_cards, {ai_player_number})
        k4 == IF card_shown = NoCard
              THEN add_constraint(k3, refuter, suggestion_cards)
              ELSE k3
    IN IF card_shown # NoCard /\ refuter \notin Players THEN Raised(k, k1)
       ELSE IF marked # players_who_passed THEN Raised(k, k3)
       ELSE IF card_shown = NoCard /\ refuter \notin Players THEN Raised(k, k3)
       ELSE Handled(k, k4, FALSE)

\* process_other_suggestion_not_refuted that collapses without looking at
\* player_lacks[suggester].
process_other_suggestion_not_refuted_trusting(k, suggester, character, weapon, room, players_checked) ==
    LET suggestion_cards == {character, weapon, room}
        k1 == record_suggestion(k, suggester, character, weapon, room,
                                NoPlayer, NoCard, players_checked)
        k2 == mark_passers(k1, players_checked, suggestion_cards,
                           {ai_player_number})
    IN IF ~ai_has_any(k2, suggestion_cards)
       THEN Handled(k, collapse_to(k2, character, weapon, room), TRUE)
       ELSE Handled(k, k2, FALSE)

process_other_suggestion_not_refuted(k, suggester, character, weapon, room, players_checked) ==
    LET suggestion_cards == {character, weapon, room}
        k1 == record_suggestion(k, suggester, character, weapon, room,
                                NoPlayer, NoCard, players_checked)
        marked == marked_before_KeyError(players_checked, {ai_player_number})
        k2 == mark_passers(k1, marked, suggestion_cards, {ai_player_number})
        suggester_known_lacks ==
            suggestion_cards \cap player_lacks_get(k2, suggester)
    IN IF marked # players_checked THEN Raised(k, k2)
       ELSE IF ~ai_has_any(k2, suggestion_cards) /\ Cardinality(suggester_known_lacks) = 3
       THEN Handled(k, collapse_to(k2, character, weapon, room), TRUE)
       ELSE Handled(k, k2, FALSE)

\* AIPlayer.observe_suggestion: the handler is selected by (suggester is the
\* AI) x (someone refuted).
observe_suggestion(k, suggester, character, weapon, room, refuter, card_shown, players_who_passed) ==
    IF suggester = ai_player_number
    THEN IF refuter # NoPlayer
         THEN process_ai_suggestion_refuted(k, character, weapon, room, refuter,
                                            card_shown, players_who_passed)
         ELSE process_ai_suggestion_not_refuted(k, character, weapon, room,
                                                players_who_passed)
    ELSE IF refuter # NoPlayer
         THEN process_other_suggestion_refuted(k, suggester, character, weapon,
                                               room, refuter, card_shown,
                                               players_who_passed)
         ELSE process_other_suggestion_not_refuted(k, suggester, character,
                                                   weapon, room,
                                                   players_who_passed)

\* ------------------------------------------------ the game around the AI
\* SimpleCluedo._setup_solution: one card of each category is sealed, the rest
\* is shuffled and dealt round robin, card i to player i % num_players.
Solutions ==
    {[character |-> c, weapon |-> w, room |-> r] :
        c \in CHARACTERS, w \in WEAPONS, r \in ROOMS}

solution_cards(sol) == {sol.character, sol.weapon, sol.room}

\* random.shuffle(remaining): the orders the cards can come in.
shuffled(cards) ==
    {order \in [1..Cardinality(cards) -> cards] :
        \A card \in cards : \E i \in DOMAIN order : order[i] = card}

\* A deal that hands out the cards in blocks of n.
deal_in_blocks(order, n) ==
    [p \in 1..n |->
        {order[i] : i \in {j \in DOMAIN order : (j - 1) \div n = p - 1}}]

\* for i, card in enumerate(remaining): players[i % num_players] gets card.
\* order is indexed from 1, players are numbered from 1.
deal(order, n) ==
    [p \in 1..n |->
        {order[i] : i \in {j \in DOMAIN order : (j - 1) % n = p - 1}}]

Deals(sol) ==
    {deal(order, num_players) :
        order \in shuffled(all_cards \ solution_cards(sol))}

\* SimpleCluedo.make_suggestion, the clockwise refutation: the players after
\* the suggester are asked in turn; the first one holding a suggested card
\* refutes, the ones asked before it have passed.
asked(suggester, i) == ((suggester - 1 + i) % num_players) + 1

matching_cards(h, player_num, items) == h[player_num] \cap items

RECURSIVE refutation_from(_, _, _, _, _)

\* The refutation that does not ask eliminated players.
refutation_from_active(h, suggester, items, i, players_who_passed) ==
    IF i > num_players - 1
    THEN [refuter |-> NoPlayer, players_who_passed |-> players_who_passed]
    ELSE IF eliminated[asked(suggester, i)]
    THEN refutation_from(h, suggester, items, i + 1, players_who_passed)
    ELSE IF matching_cards(h, asked(suggester, i), items) # {}
    THEN [refuter |-> asked(suggester, i),
          players_who_passed |-> players_who_passed]
    ELSE refutation_from(h, suggester, items, i + 1,
                         Append(players_who_passed, asked(suggester, i)))

refutation_from(h, suggester, items, i, players_who_passed) ==
    IF i > num_players - 1
    THEN [refuter |-> NoPlayer, players_who_passed |-> players_who_passed]
    ELSE IF matching_cards(h, asked(suggester, i), items) # {}
    THEN [refuter |-> asked(suggester, i),
          players_who_passed |-> players_who_passed]
    ELSE refutation_from(h, suggester, items, i + 1,
                         Append(players_who_passed, asked(suggester, i)))

refutation(h, suggester, items) == refutation_from(h, suggester, items, 1, <<>>)

\* card_told that passes the card on whoever suggested.
card_told_to_all(suggester, card_shown) == card_shown

\* The card the knowledge base is told: the AI sees it only as the suggester.
card_told(suggester, card_shown) ==
    IF suggester = ai_player_number THEN card_shown ELSE NoCard

\* The knowledge base and the turn loop as __init__ leaves them, before
\* receive_cards.
Fresh ==
    /\ dealt = FALSE
    /\ my_cards = NewKB.my_cards
    /\ player_has = NewKB.player_has
    /\ player_lacks = NewKB.player_lacks
    /\ possible_characters = NewKB.possible_characters
    /\ possible_weapons = NewKB.possible_weapons
    /\ possible_rooms = NewKB.possible_rooms
    /\ suggestion_history = NewKB.suggestion_history
    /\ at_least_one_constraints = NewKB.at_least_one_constraints
    /\ steps = <<>>
    /\ raised = FALSE
    /\ current_player = 1
    /\ has_accused = [p \in Players |-> FALSE]
    /\ eliminated = [p \in Players |-> FALSE]
    /\ game_over = FALSE
    /\ accusation = <<>>
    /\ turn = 0
    /\ accusations_made = [p \in Players |-> 0]
    /\ last_turn = [suggestions |-> 0, entered |-> NoRoom, skipped |-> FALSE]
    /\ shown_card = NoCard

\* The state after SimpleCluedo.__init__ has dealt and built the AI's
\* KnowledgeBase, before receive_cards.
Constructed ==
    /\ hands \in Deals(solution)
    /\ Fresh

Init ==
    /\ solution \in Solutions
    /\ budget = MaxEvents
    /\ horizon = 0
    /\ Constructed

\* The deals of one sealed triple, explored one event deeper. The code reads a
\* card's name only to compare it and to find its category, so renaming the
\* cards within a category maps every other deal to one of these.
InitDeep ==
    /\ solution = [character |-> "Scarlett", weapon |-> "Candlestick",
                   room |-> "Study"]
    /\ budget = DeepEvents
    /\ horizon = 0
    /\ Constructed

Becomes(result) ==
    /\ my_cards' = result.kb.my_cards
    /\ player_has' = result.kb.player_has
    /\ player_lacks' = result.kb.player_lacks
    /\ possible_characters' = result.kb.possible_characters
    /\ possible_weapons' = result.kb.possible_weapons
    /\ possible_rooms' = result.kb.possible_rooms
    /\ suggestion_history' = result.kb.suggestion_history
    /\ at_least_one_constraints' = result.kb.at_least_one_constraints
    /\ steps' = result.steps
    /\ raised' = result.raised

\* AIPlayer.receive_cards, called once by SimpleCluedo.__init__.
ReceiveCards ==
    /\ ~dealt
    /\ dealt' = TRUE
    /\ LET k == add_own_cards(KB, hands[ai_player_number])
       IN Becomes([kb |-> k, raised |-> FALSE,
                   steps |-> <<Step("deal", KB, Changed(k), FALSE)>>])
    /\ UNCHANGED <<solution, hands, budget, horizon, game, shown_card>>

\* make_suggestion by `suggester`, answered from the hands, then reported to
\* the AI through observe_suggestion.
shown_choices(h, refuter, items) ==
    IF refuter # NoPlayer THEN matching_cards(h, refuter, items) ELSE {NoCard}

answered(suggester, character, weapon, room, refuted, r) ==
    /\ refuted = (r.refuter # NoPlayer)
    /\ \E card_shown \in shown_choices(hands, r.refuter, {character, weapon, room}) :
           \E result \in {observe_suggestion(KB, suggester, character, weapon,
                               room, r.refuter,
                               card_told(suggester, card_shown),
                               r.players_who_passed)} :
               Becomes(result) /\ shown_card' = card_shown

CanSuggest ==
    /\ dealt
    /\ Len(suggestion_history) < budget

AiSuggestionRefuted ==
    \E c \in CHARACTERS, w \in WEAPONS, r \in ROOMS :
        /\ CanSuggest
        /\ answered(ai_player_number, c, w, r, TRUE,
                    refutation(hands, ai_player_number, {c, w, r}))
        /\ UNCHANGED <<solution, hands, dealt, budget, horizon, game>>

AiSuggestionNotRefuted ==
    \E c \in CHARACTERS, w \in WEAPONS, r \in ROOMS :
        /\ CanSuggest
        /\ answered(ai_player_number, c, w, r, FALSE,
                    refutation(hands, ai_player_number, {c, w, r}))
        /\ UNCHANGED <<solution, hands, dealt, budget, horizon, game>>

OtherSuggestionRefuted ==
    \E s \in Players \ {ai_player_number} :
        \E c \in CHARACTERS, w \in WEAPONS, r \in ROOMS :
            /\ CanSuggest
            /\ answered(s, c, w, r, TRUE, refutation(hands, s, {c, w, r}))
            /\ UNCHANGED <<solution, hands, dealt, budget, horizon, game>>

OtherSuggestionNotRefuted ==
    \E s \in Players \ {ai_player_number} :
        \E c \in CHARACTERS, w \in WEAPONS, r \in ROOMS :
            /\ CanSuggest
            /\ answered(s, c, w, r, FALSE, refutation(hands, s, {c, w, r}))
            /\ UNCHANGED <<solution, hands, dealt, budget, horizon, game>>

Next ==
    \/ ReceiveCards
    \/ AiSuggestionRefuted
    \/ AiSuggestionNotRefuted
    \/ OtherSuggestionRefuted
    \/ OtherSuggestionNotRefuted

Spec == Init /\ [][Next]_vars

SpecDeep == InitDeep /\ [][Next]_vars

\* The hands as the cards of the reduced universe lie in a deal of the full
\* deck: a 3-player deal gives each hand six of the 18 cards that are not
\* sealed, so of the three cards here that are not sealed a hand holds
\* between none and all. make_suggestion and the knowledge base never read
\* the size of a hand.
Tables(sol) ==
    LET remaining == all_cards \ solution_cards(sol)
    IN {h \in [Players -> SUBSET remaining] :
           /\ UNION {h[p] : p \in Players} = remaining
           /\ \A p, q \in Players : p # q => h[p] \cap h[q] = {}}

InitTable ==
    /\ solution = [character |-> "Scarlett", weapon |-> "Candlestick",
                   room |-> "Study"]
    /\ budget = TableEvents
    /\ horizon = 0
    /\ hands \in Tables(solution)
    /\ Fresh

SpecTable == InitTable /\ [][Next]_vars

\* ------------------------------------------- the handlers called directly
\* The knowledge base as a library: after add_own_cards, the four handlers are
\* called with any cards and players, whether or not a deal could have
\* produced the event (as the test script of ai_knowledge.py calls them).
InitApi ==
    /\ solution = [character |-> "Scarlett", weapon |-> "Candlestick",
                   room |-> "Study"]
    /\ budget = ApiEvents
    /\ horizon = 0
    /\ Constructed

\* The players asked before `refuter` (all the others when nobody refutes).
RECURSIVE asked_before(_, _, _)
asked_before(suggester, refuter, i) ==
    IF i > num_players - 1 \/ asked(suggester, i) = refuter THEN <<>>
    ELSE <<asked(suggester, i)>> \o asked_before(suggester, refuter, i + 1)

CallAiSuggestionRefuted ==
    \E c \in CHARACTERS, w \in WEAPONS, r \in ROOMS :
        \E refuter \in Players \ {ai_player_number}, card_shown \in {c, w, r} :
            /\ CanSuggest
            /\ Becomes(process_ai_suggestion_refuted(
                   KB, c, w, r, refuter, card_shown,
                   asked_before(ai_player_number, refuter, 1)))
            /\ UNCHANGED <<solution, hands, dealt, budget, horizon, game, shown_card>>

CallAiSuggestionNotRefuted ==
    \E c \in CHARACTERS, w \in WEAPONS, r \in ROOMS :
        /\ CanSuggest
        /\ Becomes(process_ai_suggestion_not_refuted(
               KB, c, w, r, asked_before(ai_player_number, NoPlayer, 1)))
        /\ UNCHANGED <<solution, hands, dealt, budget, horizon, game, shown_card>>

CallOtherSuggestionRefuted ==
    \E s \in Players \ {ai_player_number}, refuter \in Players :
        \E c \in CHARACTERS, w \in WEAPONS, r \in ROOMS :
            /\ CanSuggest
            /\ refuter # s
            /\ Becomes(process_other_suggestion_refuted(
                   KB, s, c, w, r, refuter, NoCard, asked_before(s, refuter, 1)))
            /\ UNCHANGED <<solution, hands, dealt, budget, horizon, game, shown_card>>

CallOtherSuggestionNotRefuted ==
    \E s \in Players \ {ai_player_number} :
        \E c \in CHARACTERS, w \in WEAPONS, r \in ROOMS :
            /\ CanSuggest
            /\ Becomes(process_other_suggestion_not_refuted(
                   KB, s, c, w, r, asked_before(s, NoPlayer, 1)))
            /\ UNCHANGED <<solution, hands, dealt, budget, horizon, game, shown_card>>

NextApi ==
    \/ ReceiveCards
    \/ CallAiSuggestionRefuted
    \/ CallAiSuggestionNotRefuted
    \/ CallOtherSuggestionRefuted
    \/ CallOtherSuggestionNotRefuted

SpecApi == InitApi /\ [][NextApi]_vars

\* ------------------------------------------- calls with unknown identifiers
\* The handlers take any int and any str: a call may name a player outside
\* 1..num_players as suggester, refuter or passer, and a card outside the three
\* categories as the suggested character.
InitMalformed ==
    /\ solution = [character |-> "Scarlett", weapon |-> "Candlestick",
                   room |-> "Study"]
    /\ budget = MalformedEvents
    /\ horizon = 0
    /\ Constructed

AnyPlayers == Players \cup {UnknownPlayer}

AnyCharacters == CHARACTERS \cup {UnknownCard}

\* players with UnknownPlayer put in after the first i of them.
with_unknown(players, i) ==
    SubSeq(players, 1, i) \o <<UnknownPlayer>> \o SubSeq(players, i + 1, Len(players))

\* The passers of a call: the players asked before the refuter, with or without
\* an unknown player among them.
AnyPassers(suggester, refuter) ==
    {asked_before(suggester, refuter, 1)} \cup
    {with_unknown(asked_before(suggester, refuter, 1), i) :
         i \in 0..Len(asked_before(suggester, refuter, 1))}

MalformedAiSuggestionRefuted ==
    \E c \in AnyCharacters, w \in WEAPONS, r \in ROOMS :
        \E refuter \in AnyPlayers \ {ai_player_number}, card_shown \in {c, w, r} :
            \E players_who_passed \in AnyPassers(ai_player_number, refuter) :
                /\ CanSuggest
                /\ Becomes(process_ai_suggestion_refuted(
                       KB, c, w, r, refuter, card_shown, players_who_passed))
                /\ UNCHANGED <<solution, hands, dealt, budget, horizon, game, shown_card>>

MalformedAiSuggestionNotRefuted ==
    \E c \in AnyCharacters, w \in WEAPONS, r \in ROOMS :
        \E players_checked \in AnyPassers(ai_player_number, NoPlayer) :
            /\ CanSuggest
            /\ Becomes(process_ai_suggestion_not_refuted(
                   KB, c, w, r, players_checked))
            /\ UNCHANGED <<solution, hands, dealt, budget, horizon, game, shown_card>>

MalformedOtherSuggestionRefuted ==
    \E s \in AnyPlayers \ {ai_player_number}, refuter \in AnyPlayers :
        \E c \in AnyCharacters, w \in WEAPONS, r \in ROOMS :
            \E players_who_passed \in AnyPassers(s, refuter) :
                /\ CanSuggest
                /\ refuter # s
                /\ Becomes(process_other_suggestion_refuted(
                       KB, s, c, w, r, refuter, NoCard, players_who_passed))
                /\ UNCHANGED <<solution, hands, dealt, budget, horizon, game, shown_card>>

MalformedOtherSuggestionNotRefuted ==
    \E s \in AnyPlayers \ {ai_player_number} :
        \E c \in AnyCharacters, w \in WEAPONS, r \in ROOMS :
            \E players_checked \in AnyPassers(s, NoPlayer) :
                /\ CanSuggest
                /\ Becomes(process_other_suggestion_not_refuted(
                       KB, s, c, w, r, players_checked))
                /\ UNCHANGED <<solution, hands, dealt, budget, horizon, game, shown_card>>

\* add_own_card called with a name that is no card.
MalformedAddOwnCard ==
    /\ dealt
    /\ suggestion_history = <<>>
    /\ LET k == add_own_card(KB, UnknownCard)
       IN Becomes([kb |-> k, raised |-> FALSE,
                   steps |-> <<Step("deal", KB, Changed(k), FALSE)>>])
    /\ UNCHANGED <<solution, hands, dealt, budget, horizon, game, shown_card>>

NextMalformed ==
    \/ ReceiveCards
    \/ MalformedAddOwnCard
    \/ MalformedAiSuggestionRefuted
    \/ MalformedAiSuggestionNotRefuted
    \/ MalformedOtherSuggestionRefuted
    \/ MalformedOtherSuggestionNotRefuted

SpecMalformed == InitMalformed /\ [][NextMalformed]_vars

\* ------------------------------------------------------- the turn loop
\* AIPlayer.choose_suggestion: a character and a weapon among the candidates
\* the AI does not hold, else among the cards it does not hold, else any; the
\* room is the room the AI is in.
choose_among(possible, category, own) ==
    IF possible \ own # {} THEN possible \ own
    ELSE IF category \ own # {} THEN category \ own
    ELSE category

choose_suggestion(k, current_room) ==
    {<<character, weapon, current_room>> :
        character \in choose_among(k.possible_characters, CHARACTERS, k.my_cards),
        weapon \in choose_among(k.possible_weapons, WEAPONS, k.my_cards)}

\* should_accuse of an AI that never accuses.
should_accuse_never(k) == FALSE

should_accuse(k) == is_solution_known(k)

\* get_accusation that names the AI's latest suggestion.
get_accusation_of_last_suggestion(k) ==
    IF k.suggestion_history = <<>> THEN get_solution(k)
    ELSE <<k.suggestion_history[Len(k.suggestion_history)].character,
           k.suggestion_history[Len(k.suggestion_history)].weapon,
           k.suggestion_history[Len(k.suggestion_history)].room>>

get_accusation(k) == get_solution(k)

knowledge == <<my_cards, player_has, player_lacks, possible_characters,
               possible_weapons, possible_rooms, suggestion_history,
               at_least_one_constraints, steps, raised>>

InitGame ==
    /\ solution = [character |-> "Scarlett", weapon |-> "Candlestick",
                   room |-> "Study"]
    /\ budget = GameEvents
    /\ horizon = GameTurns
    /\ Constructed

\* play with a loop that tests game_over alone.
Playing_without_limit ==
    /\ dealt
    /\ ~game_over
    /\ turn < horizon

\* play: while not self.game_over and turn < 100, the turn of current_player,
\* then current_player advances.
Playing ==
    /\ dealt
    /\ ~game_over /\ turn < max_turns
    /\ turn < horizon

next_player == (current_player % num_players) + 1

correct(character, weapon, room) ==
    /\ character = solution.character
    /\ weapon = solution.weapon
    /\ room = solution.room

active(elim) == {p \in Players : ~elim[p]}

\* What a turn leaves in last_turn; a turn that suggests nowhere and enters no
\* room.
made(t) ==
    [suggestions |-> Len(t.rooms), entered |-> t.entered, skipped |-> FALSE]

no_suggestion == [rooms |-> <<>>, entered |-> NoRoom]

\* make_accusation that leaves a wrong accuser in the game.
make_accusation_forgiving(player, character, weapon, room) ==
    /\ has_accused' = [has_accused EXCEPT ![player] = TRUE]
    /\ accusation' = <<player, character, weapon, room>>
    /\ accusations_made' = [accusations_made EXCEPT ![player] = @ + 1]
    /\ last_turn' = made(no_suggestion)
    /\ eliminated' = eliminated
    /\ game_over' = correct(character, weapon, room)

\* make_accusation and the game_over its callers set when it returns True: a
\* correct accusation ends the game, a wrong one eliminates the player and
\* ends the game when at most one player is left.
make_accusation(player, character, weapon, room) ==
    /\ has_accused' = [has_accused EXCEPT ![player] = TRUE]
    /\ accusation' = <<player, character, weapon, room>>
    /\ accusations_made' = [accusations_made EXCEPT ![player] = @ + 1]
    /\ last_turn' = made(no_suggestion)
    /\ IF correct(character, weapon, room)
       THEN /\ eliminated' = eliminated
            /\ game_over' = TRUE
       ELSE /\ eliminated' = [eliminated EXCEPT ![player] = TRUE]
            /\ game_over' = (Cardinality(active(eliminated) \ {player}) <= 1)

\* make_suggestion by `player` in the knowledge state k: the outcomes, one for
\* each card the refuter can show. The knowledge base is told through
\* observe_suggestion; shown_card is the card the suggester sees.
shown_to(k, player, character, weapon, room, r) ==
    {[result |-> observe_suggestion(k, player, character, weapon, room,
                                    r.refuter, card_told(player, card),
                                    r.players_who_passed),
      shown_card |-> card] :
        card \in shown_choices(hands, r.refuter, {character, weapon, room})}

make_suggestion(k, player, character, weapon, room) ==
    shown_to(k, player, character, weapon, room,
             refutation(hands, player, {character, weapon, room}))

\* Where a player stands when its turn starts: player['in_room'] and
\* player['was_dragged']. The board, the dice and the moves are not modelled:
\* the position, the choice of a secret passage and the room a movement ends
\* in are inputs of the turn.
Positions ==
    {[in_room |-> room, was_dragged |-> dragged] :
        room \in ROOMS \cup {NoRoom}, dragged \in BOOLEAN}
    \ {[in_room |-> NoRoom, was_dragged |-> TRUE]}

\* SECRET_PASSAGES, reduced to the passage out of the Study; its destination
\* is the other room of the reduced universe.
SECRET_PASSAGES == [room \in {"Study"} |-> "Hall"]

\* AIPlayer.should_use_secret_passage: never once the solution is known, else
\* a choice that depends on the rooms visited and on a coin.
should_use_secret_passage(k) ==
    IF is_solution_known(k) THEN {FALSE} ELSE BOOLEAN

\* The movement that ends a turn, entering a room although a suggestion was
\* already made this turn.
by_movement_suggesting_again(rooms, suggestion_made, entered) ==
    IF entered # NoRoom THEN Append(rooms, entered) ELSE rooms

\* The list of rooms in which a turn calls make_suggestion, in order. The
\* movement that ends a turn: a room entered calls for a suggestion unless
\* suggestion_made is set.
by_movement(rooms, suggestion_made, entered) ==
    IF entered # NoRoom /\ ~suggestion_made THEN Append(rooms, entered)
    ELSE rooms

by_passage(position, use_passage) ==
    /\ position.in_room \in DOMAIN SECRET_PASSAGES
    /\ use_passage

\* The room the movement of the turn ends in: a turn that takes a secret
\* passage ends there, without a movement.
entered_by(position, use_passage, entered) ==
    IF /\ ~(position.in_room # NoRoom /\ position.was_dragged)
       /\ by_passage(position, use_passage)
    THEN NoRoom
    ELSE entered

\* _play_ai_turn after the accusation check: a dragged AI suggests where it
\* stands and moves on; otherwise it takes a secret passage and suggests at
\* its end, or it moves.
ai_turn_rooms(position, use_passage, entered) ==
    IF position.in_room # NoRoom /\ position.was_dragged
    THEN by_movement(<<position.in_room>>, TRUE, entered)
    ELSE IF by_passage(position, use_passage)
    THEN <<SECRET_PASSAGES[position.in_room]>>
    ELSE by_movement(<<>>, FALSE, entered)

\* play_turn of a human after offer_accusation: a dragged player may suggest
\* where it stands (wants) and moves on; a player in a room may take a secret
\* passage; otherwise it moves.
human_turn_rooms(position, wants, use_passage, entered) ==
    IF position.in_room # NoRoom /\ position.was_dragged
    THEN IF wants THEN by_movement(<<position.in_room>>, TRUE, entered)
         ELSE by_movement(<<>>, FALSE, entered)
    ELSE IF by_passage(position, use_passage)
    THEN <<SECRET_PASSAGES[position.in_room]>>
    ELSE by_movement(<<>>, FALSE, entered)

\* The turns a player can take: one list of rooms for every position, choice
\* and movement.
ai_turns(k) ==
    {[rooms |-> ai_turn_rooms(position, use_passage, entered),
      entered |-> entered_by(position, use_passage, entered)] :
        position \in Positions, entered \in ROOMS \cup {NoRoom},
        use_passage \in should_use_secret_passage(k)}

human_turns ==
    {[rooms |-> human_turn_rooms(position, answers[1], answers[2], entered),
      entered |-> entered_by(position, answers[2], entered)] :
        position \in Positions, entered \in ROOMS \cup {NoRoom},
        answers \in BOOLEAN \X BOOLEAN}

\* The suggestions of one turn, made in the rooms of `rooms` one after the
\* other: the AI's triple is choose_suggestion of the knowledge it then has,
\* a human's character and weapon are typed in.
RECURSIVE ai_suggestions(_, _)
ai_suggestions(outcomes, rooms) ==
    IF rooms = <<>> THEN outcomes
    ELSE ai_suggestions(
             UNION {UNION {make_suggestion(o.result.kb, ai_player_number,
                                           s[1], s[2], s[3]) :
                               s \in choose_suggestion(o.result.kb, Head(rooms))} :
                        o \in outcomes},
             Tail(rooms))

RECURSIVE human_suggestions(_, _, _)
human_suggestions(outcomes, player, rooms) ==
    IF rooms = <<>> THEN outcomes
    ELSE human_suggestions(
             UNION {UNION {make_suggestion(o.result.kb, player, s[1], s[2],
                                           Head(rooms)) :
                               s \in CHARACTERS \X WEAPONS} :
                        o \in outcomes},
             player, Tail(rooms))

before_turn == {[result |-> [kb |-> KB], shown_card |-> shown_card]}

\* This run explores the suggestions of the turn.
CanSuggestIn(rooms) ==
    /\ rooms # <<>>
    /\ Len(suggestion_history) + Len(rooms) <= budget

\* play, after play_turn returned.
turn_taken ==
    /\ current_player' = next_player
    /\ turn' = turn + 1

\* play_turn of an eliminated player.
SkipEliminated ==
    /\ Playing
    /\ eliminated[current_player]
    /\ turn_taken
    /\ last_turn' = [made(no_suggestion) EXCEPT !.skipped = TRUE]
    /\ UNCHANGED <<solution, hands, dealt, budget, horizon, knowledge,
                   shown_card, has_accused, eliminated, game_over, accusation,
                   accusations_made>>

\* _play_ai_turn, the accusation at the start of the turn.
AiAccuses ==
    /\ Playing
    /\ current_player = ai_player_number
    /\ ~eliminated[current_player]
    /\ should_accuse(KB) /\ ~has_accused[current_player]
    /\ make_accusation(current_player, get_accusation(KB)[1],
                       get_accusation(KB)[2], get_accusation(KB)[3])
    /\ turn_taken
    /\ UNCHANGED <<solution, hands, dealt, budget, horizon, knowledge,
                   shown_card>>

\* _play_ai_turn without an accusation, with at least one suggestion.
AiSuggests ==
    /\ Playing
    /\ current_player = ai_player_number
    /\ ~eliminated[current_player]
    /\ ~(should_accuse(KB) /\ ~has_accused[current_player])
    /\ \E t \in ai_turns(KB) :
           /\ CanSuggestIn(t.rooms)
           /\ \E o \in ai_suggestions(before_turn, t.rooms) :
                  Becomes(o.result) /\ shown_card' = o.shown_card
           /\ last_turn' = made(t)
    /\ turn_taken
    /\ UNCHANGED <<solution, hands, dealt, budget, horizon, has_accused,
                   eliminated, game_over, accusation, accusations_made>>

\* _play_ai_turn without an accusation and without a suggestion.
AiEndsInHallway ==
    /\ Playing
    /\ current_player = ai_player_number
    /\ ~eliminated[current_player]
    /\ ~(should_accuse(KB) /\ ~has_accused[current_player])
    /\ no_suggestion \in ai_turns(KB)
    /\ last_turn' = made(no_suggestion)
    /\ turn_taken
    /\ UNCHANGED <<solution, hands, dealt, budget, horizon, knowledge,
                   shown_card, has_accused, eliminated, game_over, accusation,
                   accusations_made>>

\* play_turn of a human player: offer_accusation, which ends the turn when the
\* player accuses; else the suggestions of human_turn_rooms.
HumanAccuses ==
    /\ Playing
    /\ current_player # ai_player_number
    /\ ~eliminated[current_player]
    /\ ~has_accused[current_player]
    /\ \E c \in CHARACTERS, w \in WEAPONS, r \in ROOMS :
           make_accusation(current_player, c, w, r)
    /\ turn_taken
    /\ UNCHANGED <<solution, hands, dealt, budget, horizon, knowledge,
                   shown_card>>

HumanSuggests ==
    /\ Playing
    /\ current_player # ai_player_number
    /\ ~eliminated[current_player]
    /\ \E t \in human_turns :
           /\ CanSuggestIn(t.rooms)
           /\ \E o \in human_suggestions(before_turn, current_player, t.rooms) :
                  Becomes(o.result) /\ shown_card' = o.shown_card
           /\ last_turn' = made(t)
    /\ turn_taken
    /\ UNCHANGED <<solution, hands, dealt, budget, horizon, has_accused,
                   eliminated, game_over, accusation, accusations_made>>

HumanEndsInHallway ==
    /\ Playing
    /\ current_player # ai_player_number
    /\ ~eliminated[current_player]
    /\ no_suggestion \in human_turns
    /\ last_turn' = made(no_suggestion)
    /\ turn_taken
    /\ UNCHANGED <<solution, hands, dealt, budget, horizon, knowledge,
                   shown_card, has_accused, eliminated, game_over, accusation,
                   accusations_made>>

NextGame ==
    \/ ReceiveCards
    \/ SkipEliminated
    \/ AiAccuses
    \/ AiSuggests
    \/ AiEndsInHallway
    \/ HumanAccuses
    \/ HumanSuggests
    \/ HumanEndsInHallway

SpecGame == InitGame /\ [][NextGame]_vars

\* play from its first turn to the end of the loop: the turns explored are not
\* cut short before the loop's own limit.
InitPlay ==
    /\ solution = [character |-> "Scarlett", weapon |-> "Candlestick",
                   room |-> "Study"]
    /\ budget = PlayEvents
    /\ horizon = max_turns + 1
    /\ Constructed

SpecPlay == InitPlay /\ [][NextGame]_vars

\* ------------------------------------------------------------- the deal
\* SimpleCluedo.__init__ up to _setup_solution, for every number of players
\* the prompt accepts: the players are built with empty hands, then
\* _setup_solution seals one card of each category, shuffles the others and
\* deals them.
PlayerCounts == 2..6

NoSolution == [character |-> NoCard, weapon |-> NoCard, room |-> NoCard]

InitDeal ==
    /\ solution = NoSolution
    /\ hands \in {[p \in 1..n |-> {}] : n \in PlayerCounts}
    /\ budget = 0
    /\ horizon = 0
    /\ Fresh

setup_solution ==
    /\ solution = NoSolution
    /\ \E sol \in Solutions :
           \E order \in shuffled(all_cards \ solution_cards(sol)) :
               /\ solution' = sol
               /\ hands' = deal(order, Len(hands))
    /\ UNCHANGED <<dealt, budget, horizon, knowledge, game, shown_card>>

NextDeal == setup_solution

SpecDeal == InitDeal /\ [][NextDeal]_vars

\* ------------------------------------------------------------- properties
\* P holds of every knowledge state of the last handler call: the state it
\* started from, the state after its direct facts, the state after every rule
\* application of run_deduction, and the state it returned (the variables).
\* Each step starts from the state the step before it ended in, so the states
\* are the first step's before and every step's after.
EveryStage(P(_)) ==
    /\ P(KB)
    /\ steps # <<>> => P(steps[1].before)
    /\ \A i \in DOMAIN steps : P(steps[i].after)

last_suggestion == suggestion_history[Len(suggestion_history)]

Sound(k) ==
    /\ \A p \in Players : k.player_has[p] \subseteq hands[p]
    /\ \A p \in Players : k.player_lacks[p] \cap hands[p] = {}
    /\ solution.character \in k.possible_characters
    /\ solution.weapon \in k.possible_weapons
    /\ solution.room \in k.possible_rooms

\* C1: with the hands the events were answered from, every card of
\* player_has[p] is in p's hand, no card of player_lacks[p] is, and the sealed
\* character, weapon and room are still in their possible sets, in every
\* state the knowledge base goes through.
C1_Soundness == EveryStage(Sound)

\* C1 witness: a handler returned after a deduction rule declared a holder,
\* with the solution known and lacks facts recorded.
C1_Witness ==
    /\ is_solution_known(KB)
    /\ \E i \in DOMAIN steps :
           steps[i].rule \in {"resolve", "unique"} /\ steps[i].changed
    /\ \E p \in Players : player_lacks[p] # {}

InvariantA(k) == \A p \in Players : k.player_has[p] \cap k.player_lacks[p] = {}

\* C2 (Invariant A): after add_own_cards and any sequence of suggestion
\* events, no player has a card in both player_has and player_lacks.
C2_InvariantA == dealt => EveryStage(InvariantA)

\* C2 witness: two events were processed and some player other than the AI has
\* both a known card and known missing cards.
C2_Witness ==
    /\ Len(suggestion_history) >= 2
    /\ \E p \in Players \ {ai_player_number} :
           player_has[p] # {} /\ player_lacks[p] # {}

\* C3: once the solution is known it stays known, and get_solution returns the
\* same triple after every later event.
C3_SolutionStable ==
    [][is_solution_known(KB) =>
           /\ is_solution_known(KB')
           /\ get_solution(KB') = get_solution(KB)]_vars

\* C3 witness: an event was processed by a knowledge base that already knew
\* the solution.
C3_Witness ==
    /\ steps # <<>>
    /\ steps[1].rule = "event"
    /\ is_solution_known(steps[1].before)
    /\ is_solution_known(KB)

InvariantB(k) ==
    UNION {k.player_has[p] : p \in Players} \cap solution_candidates(k) = {}

NoLarger(k1, k2) ==
    /\ Cardinality(k2.possible_characters) <= Cardinality(k1.possible_characters)
    /\ Cardinality(k2.possible_weapons) <= Cardinality(k1.possible_weapons)
    /\ Cardinality(k2.possible_rooms) <= Cardinality(k1.possible_rooms)

Within(k1, k2) ==
    /\ k2.possible_characters \subseteq k1.possible_characters
    /\ k2.possible_weapons \subseteq k1.possible_weapons
    /\ k2.possible_rooms \subseteq k1.possible_rooms

OwnCardsExcluded(k) == k.my_cards \cap solution_candidates(k) = {}

\* C7 (own-card exclusion): from add_own_cards on, no card of my_cards is in a
\* possible set, in any state the knowledge base goes through.
C7_OwnCardExcluded == dealt => EveryStage(OwnCardsExcluded)

\* C7 witness: the AI made an unrefuted suggestion naming one of its own cards.
C7_Witness ==
    /\ suggestion_history # <<>>
    /\ last_suggestion.suggester = ai_player_number
    /\ last_suggestion.refuter = NoPlayer
    /\ last_suggestion.room \in my_cards

\* C8: when process_ai_suggestion_not_refuted(A, B, C, ...) returns and
\* my_cards holds none of A, B, C, the possible sets are {A}, {B}, {C} and
\* get_solution is (A, B, C).
C8_OwnUnrefutedCollapse ==
    (/\ suggestion_history # <<>>
     /\ last_suggestion.suggester = ai_player_number
     /\ last_suggestion.refuter = NoPlayer
     /\ {last_suggestion.character, last_suggestion.weapon,
         last_suggestion.room} \cap my_cards = {})
    => /\ possible_is(KB, last_suggestion.character, last_suggestion.weapon,
                      last_suggestion.room)
       /\ is_solution_known(KB)
       /\ get_solution(KB) = <<last_suggestion.character,
                               last_suggestion.weapon, last_suggestion.room>>

\* C8 witness: the AI's unrefuted suggestion held none of its cards, and the
\* solution was not known before it.
C8_Witness ==
    /\ suggestion_history # <<>>
    /\ last_suggestion.suggester = ai_player_number
    /\ last_suggestion.refuter = NoPlayer
    /\ {last_suggestion.character, last_suggestion.weapon,
        last_suggestion.room} \cap my_cards = {}
    /\ ~is_solution_known(steps[1].before)

\* The case of C9 in knowledge state k: constraint j is (P, S) and X, Y are
\* cards of S that P is not known to lack and no other player is known to
\* hold, X no solution candidate, Y a solution candidate.
MixedConstraint(k, j, X, Y) ==
    /\ {X, Y} \subseteq still_possible(k, k.at_least_one_constraints[j].player,
                                       k.at_least_one_constraints[j].cards)
    /\ X \notin solution_candidates(k)
    /\ Y \in solution_candidates(k)

NewlyHeld(k1, k2) ==
    UNION {k2.player_has[p] \ k1.player_has[p] : p \in Players}

\* C10: _resolve_constraints and _infer_unique_holder declare no holder for a
\* card that is a solution candidate when they run, and leave the three
\* possible sets as they were.
C10_RulesSpareCandidates ==
    \A i \in DOMAIN steps :
        steps[i].rule \in {"resolve", "unique"} =>
            /\ NewlyHeld(steps[i].before, steps[i].after)
                   \cap solution_candidates(steps[i].before) = {}
            /\ Within(steps[i].before, steps[i].after)
            /\ Within(steps[i].after, steps[i].before)

\* C10 witness: _infer_unique_holder ran on a solution candidate with no known
\* holder that exactly one other player could still hold, and declared no
\* holder for it.
C10_Witness ==
    \E i \in DOMAIN steps : \E c \in all_cards :
        /\ steps[i].rule = "unique"
        /\ is_solution_candidate(steps[i].before, c)
        /\ c \notin steps[i].before.my_cards
        /\ Cardinality(possible_holders(steps[i].before, c)) = 1
        /\ \A p \in Players : c \notin steps[i].after.player_has[p]

SameFacts(k1, k2) ==
    /\ k1.my_cards = k2.my_cards
    /\ k1.player_has = k2.player_has
    /\ k1.player_lacks = k2.player_lacks
    /\ k1.possible_characters = k2.possible_characters
    /\ k1.possible_weapons = k2.possible_weapons
    /\ k1.possible_rooms = k2.possible_rooms

\* once is the state after one call of an operation on k, twice the state after
\* a second call with the same arguments.
SecondCallIdle(once, twice) == SameFacts(twice, once)

IdempotentAt(k, p, c, has, lacks, own) ==
    /\ SecondCallIdle(has, mark_player_has_card(has, p, c))
    /\ SecondCallIdle(lacks, mark_player_lacks_card(lacks, p, c))
    /\ SecondCallIdle(own, add_own_card(own, c))

Idempotent(k) ==
    \A p \in Players, c \in all_cards :
        IdempotentAt(k, p, c, mark_player_has_card(k, p, c),
                     mark_player_lacks_card(k, p, c), add_own_card(k, c))

\* C11 (idempotence): in every reachable state, for every player and card, a
\* second mark_player_has_card, mark_player_lacks_card or add_own_card with the
\* same arguments leaves my_cards, player_has, player_lacks and the possible
\* sets as the first call left them.
C11_Idempotent == Idempotent(KB)

\* C11 witness: after an event there is a card some player is known to lack,
\* so that a first mark_player_has_card both adds a holder and discards a lacks
\* fact, and a first mark_player_lacks_card and add_own_card change the state.
C11_Witness ==
    /\ suggestion_history # <<>>
    /\ \E p \in Players, c \in all_cards :
           /\ c \in player_lacks[p]
           /\ c \in mark_player_has_card(KB, p, c).player_has[p]
           /\ c \notin mark_player_has_card(KB, p, c).player_lacks[p]
    /\ \E p \in Players, c \in all_cards :
           ~SameFacts(mark_player_lacks_card(KB, p, c), KB)
    /\ \E c \in all_cards : ~SameFacts(add_own_card(KB, c), KB)

\* The possible sets of k are the singletons of one triple.
OneEach(k) ==
    \E c \in CHARACTERS, w \in WEAPONS, r \in ROOMS : possible_is(k, c, w, r)

InvariantD(k) ==
    /\ is_solution_known(k) <=> OneEach(k)
    /\ is_solution_known(k) =>
           possible_is(k, get_solution(k)[1], get_solution(k)[2], get_solution(k)[3])
    /\ ~is_solution_known(k) => get_solution(k) = <<>>

\* C13 (Invariant D): in every state the knowledge base goes through,
\* is_solution_known is true exactly when each possible set has exactly one
\* member; get_solution is then the triple of these members, and None
\* otherwise.
C13_InvariantD == EveryStage(InvariantD)

\* C13 witness: an event turned an unknown solution into a known one.
C13_Witness ==
    /\ steps # <<>>
    /\ steps[1].rule = "event"
    /\ ~is_solution_known(steps[1].before)
    /\ get_solution(steps[1].before) = <<>>
    /\ is_solution_known(KB)
    /\ get_solution(KB) = <<solution.character, solution.weapon, solution.room>>

\* The deals the viewer cannot tell from the real one: the viewer's hand is its
\* own, and every logged event is answered by the refutation protocol as it
\* was observed (refuter, passers, and the shown card when the viewer saw it).
Worlds ==
    UNION {{[solution |-> sol, hands |-> h] : h \in Deals(sol)} : sol \in Solutions}

ConsistentEntry(h, e, r) ==
    /\ r.refuter = e.refuter
    /\ r.players_who_passed = e.players_who_passed
    /\ e.card_shown # NoCard => e.card_shown \in h[e.refuter]

Consistent(w) ==
    /\ w.hands[ai_player_number] = my_cards
    /\ \A i \in DOMAIN suggestion_history :
           ConsistentEntry(w.hands, suggestion_history[i],
               refutation(w.hands, suggestion_history[i].suggester,
                          {suggestion_history[i].character,
                           suggestion_history[i].weapon,
                           suggestion_history[i].room}))

Determined == \A w \in Worlds : Consistent(w) => w.solution = solution

\* C12 (detection of certainty): after every event, when every deal consistent
\* with the viewer's hand and the events observed so far has the same sealed
\* triple, is_solution_known is true and get_solution is that triple.
C12_DetectsCertainty ==
    (suggestion_history # <<>> /\ Determined) =>
        /\ is_solution_known(KB)
        /\ get_solution(KB) = <<solution.character, solution.weapon, solution.room>>

\* The last handler call, its event e, the knowledge before it (b) and after
\* its direct facts (a).
suggested(e) == {e.character, e.weapon, e.room}

passers(e) == {e.players_who_passed[i] : i \in DOMAIN e.players_who_passed}

EventHandled == steps # <<>> /\ steps[1].rule = "event"

SamePossible(k1, k2) == Within(k1, k2) /\ Within(k2, k1)

OwnRefuted(e, b, a) ==
    /\ e.card_shown \in a.player_has[e.refuter]
    /\ e.card_shown \in player_has[e.refuter]
    /\ \A p \in passers(e) :
           /\ suggested(e) \subseteq a.player_lacks[p]
           /\ suggested(e) \subseteq player_lacks[p]
    /\ ~steps[1].collapse
    /\ a.possible_characters = b.possible_characters \ {e.card_shown}
    /\ a.possible_weapons = b.possible_weapons \ {e.card_shown}
    /\ a.possible_rooms = b.possible_rooms \ {e.card_shown}

\* C14: after process_ai_suggestion_refuted on an event of a real deal,
\* card_shown is in player_has[refuter] and every passer has the three
\* suggested cards in player_lacks; the handler does not collapse: its direct
\* facts take nothing but card_shown out of the possible sets, so that the
\* solution becomes certain only when this elimination leaves singletons.
C14_OwnRefuted ==
    (/\ EventHandled
     /\ last_suggestion.suggester = ai_player_number
     /\ last_suggestion.refuter # NoPlayer)
    => OwnRefuted(last_suggestion, steps[1].before, steps[1].after)

\* C14 witness: an own suggestion was refuted after a player passed, and the
\* elimination of the shown card made the solution certain.
C14_Witness ==
    /\ EventHandled
    /\ last_suggestion.suggester = ai_player_number
    /\ last_suggestion.refuter # NoPlayer
    /\ last_suggestion.players_who_passed # <<>>
    /\ ~is_solution_known(steps[1].before)
    /\ is_solution_known(steps[1].after)

OtherNotRefuted(e, b, a) ==
    /\ \A p \in passers(e) \ {ai_player_number} : \A c \in suggested(e) :
           /\ c \in a.player_lacks[p] \/ c \in b.player_has[p]
           /\ c \in player_lacks[p] \/ c \in player_has[p]
    /\ a.player_lacks[ai_player_number] = b.player_lacks[ai_player_number]
    /\ player_lacks[ai_player_number] = b.player_lacks[ai_player_number]
    /\ (/\ suggested(e) \cap b.my_cards = {}
        /\ suggested(e) \subseteq b.player_lacks[e.suggester])
       => /\ steps[1].collapse
          /\ possible_is(a, e.character, e.weapon, e.room)
          /\ possible_is(KB, e.character, e.weapon, e.room)
    /\ ~(suggested(e) \subseteq b.player_lacks[e.suggester])
       => /\ ~steps[1].collapse
          /\ SamePossible(b, a)
          /\ possible_is(KB, e.character, e.weapon, e.room)
                 => possible_is(b, e.character, e.weapon, e.room)

\* C15: after process_other_suggestion_not_refuted(suggester, A, B, C,
\* players_checked), every checked player other than the viewer has A, B, C
\* in player_lacks (or was already known to hold the card), the viewer's own
\* player_lacks is as before, the possible sets are {A}, {B}, {C} when the
\* viewer holds none of the cards and player_lacks[suggester] had all three,
\* and when player_lacks[suggester] had not all three the handler does not
\* collapse and the event does not make the possible sets {A}, {B}, {C}.
C15_OtherNotRefuted ==
    (/\ EventHandled
     /\ last_suggestion.suggester # ai_player_number
     /\ last_suggestion.refuter = NoPlayer)
    => OtherNotRefuted(last_suggestion, steps[1].before, steps[1].after)

\* C15 witness: another player's unrefuted suggestion collapsed the possible
\* sets, the suggester being known to lack the three cards, and made the
\* solution known.
C15_Witness ==
    /\ EventHandled
    /\ last_suggestion.suggester # ai_player_number
    /\ last_suggestion.refuter = NoPlayer
    /\ steps[1].collapse
    /\ ~is_solution_known(steps[1].before)
    /\ is_solution_known(KB)

\* Entry e of the log is an unrefuted suggestion of another player, of cards
\* the viewer does not hold, whose suggester is known in k to lack all three.
SuggesterExcluded(k, e) ==
    /\ e.refuter = NoPlayer
    /\ e.suggester # ai_player_number
    /\ suggested(e) \cap k.my_cards = {}
    /\ suggested(e) \subseteq k.player_lacks[e.suggester]

\* C16 (retroactive collapse): when a handler returns and the log holds an
\* unrefuted suggestion (A, B, C) of another player S, the viewer holds none of
\* A, B, C and player_lacks[S] has all three, then is_solution_known is true
\* and get_solution is (A, B, C).
C16_RetroactiveCollapse ==
    EventHandled =>
        \A i \in DOMAIN suggestion_history :
            SuggesterExcluded(KB, suggestion_history[i]) =>
                /\ is_solution_known(KB)
                /\ get_solution(KB) = <<suggestion_history[i].character,
                                        suggestion_history[i].weapon,
                                        suggestion_history[i].room>>

\* C16 witness: a later event completed player_lacks[S] for an earlier
\* unrefuted suggestion of S, and log replay collapsed the possible sets.
C16_Witness ==
    /\ EventHandled
    /\ \E i \in 1..(Len(suggestion_history) - 1) :
           /\ SuggesterExcluded(KB, suggestion_history[i])
           /\ ~SuggesterExcluded(steps[1].before, suggestion_history[i])
    /\ ~is_solution_known(steps[1].after)
    /\ \E j \in DOMAIN steps : steps[j].rule = "replay" /\ steps[j].collapse

HeardRefutation(e) ==
    /\ e.suggester # ai_player_number
    /\ e.refuter # NoPlayer
    /\ e.card_shown = NoCard

PassersLack(e, a) ==
    \A p \in passers(e) \ {ai_player_number} : suggested(e) \subseteq a.player_lacks[p]

\* C17 as stated: every call of process_other_suggestion_refuted whose card is
\* not revealed appends the constraint (refuter, {A, B, C}), puts A, B, C in
\* player_lacks of every passer other than the viewer, and adds no card to
\* player_has[refuter].
C17_AlwaysConstraint ==
    (EventHandled /\ HeardRefutation(last_suggestion)) =>
        /\ \E j \in DOMAIN steps[1].after.at_least_one_constraints :
               steps[1].after.at_least_one_constraints[j] =
                   [player |-> last_suggestion.refuter,
                    cards |-> suggested(last_suggestion)]
        /\ PassersLack(last_suggestion, steps[1].after)
        /\ steps[1].after.player_has = steps[1].before.player_has

ConstraintUnlessSatisfied(e, b, a) ==
    /\ IF b.player_has[e.refuter] \cap suggested(e) = {}
       THEN a.at_least_one_constraints =
                Append(b.at_least_one_constraints,
                       [player |-> e.refuter, cards |-> suggested(e)])
       ELSE a.at_least_one_constraints = b.at_least_one_constraints
    /\ \A p \in passers(e) \ {ai_player_number} :
           a.player_lacks[p] =
               b.player_lacks[p] \cup (suggested(e) \ b.player_has[p])
    /\ a.player_has = b.player_has

\* C17 (amended): for every call of process_other_suggestion_refuted with
\* card_shown = None, the direct facts append the constraint
\* (refuter, {A, B, C}) unless player_has[refuter] already holds one of A, B,
\* C, in which case the constraints are left as they were; every passer other
\* than the viewer gets those of A, B, C in player_lacks that it is not known
\* to hold, and no card is added to any player_has.
C17_ConstraintUnlessSatisfied ==
    (EventHandled /\ HeardRefutation(last_suggestion)) =>
        ConstraintUnlessSatisfied(last_suggestion, steps[1].before, steps[1].after)

\* C17 witness: the refuter was already known to hold one of the suggested
\* cards, a player other than the viewer had passed, and an earlier call had
\* created a constraint.
C17_Witness ==
    /\ EventHandled
    /\ HeardRefutation(last_suggestion)
    /\ steps[1].before.at_least_one_constraints # <<>>
    /\ steps[1].before.player_has[last_suggestion.refuter]
           \cap suggested(last_suggestion) # {}
    /\ passers(last_suggestion) \ {ai_player_number} # {}

\* Entry e carries an event of the game: its refuter and passers are the ones
\* the refutation protocol finds in the hands, and its card_shown is a
\* suggested card of the refuter when the viewer suggested, None otherwise.
CarriesEvent(e) ==
    /\ e.suggester \in Players
    /\ e.character \in CHARACTERS /\ e.weapon \in WEAPONS /\ e.room \in ROOMS
    /\ ConsistentEntry(hands, e, refutation(hands, e.suggester, suggested(e)))
    /\ IF e.suggester = ai_player_number /\ e.refuter # NoPlayer
       THEN e.card_shown \in suggested(e)
       ELSE e.card_shown = NoCard

\* C18 (append-only log): every handler call appends exactly one entry, which
\* carries the event's suggester, triple, refuter, card_shown and passers;
\* the entries before it stay as they were, in the handler and in every rule
\* application of its fixed-point pass; nothing else changes the log.
C18_AppendOnly ==
    [][IF steps'[1].rule = "event"
       THEN /\ Len(suggestion_history') = Len(suggestion_history) + 1
            /\ SubSeq(suggestion_history', 1, Len(suggestion_history))
                   = suggestion_history
            /\ CarriesEvent(suggestion_history'[Len(suggestion_history')])
            /\ steps'[1].before.suggestion_history = suggestion_history
            /\ \A i \in DOMAIN steps' :
                   steps'[i].after.suggestion_history = suggestion_history'
       ELSE suggestion_history' = suggestion_history]_vars

\* C18 witness: the log holds two entries of different shapes, the second one
\* appended by a call whose fixed-point pass changed the knowledge.
C18_Witness ==
    /\ Len(suggestion_history) = 2
    /\ suggestion_history[1].refuter = NoPlayer
    /\ suggestion_history[2].refuter # NoPlayer
    /\ suggestion_history[2].players_who_passed # <<>>
    /\ \E i \in DOMAIN steps :
           steps[i].rule \in {"resolve", "unique"} /\ steps[i].changed

SameKnowledge(k1, k2) ==
    /\ SameFacts(k1, k2)
    /\ k1.at_least_one_constraints = k2.at_least_one_constraints

LastPassIdle ==
    /\ Len(steps) >= 4
    /\ Len(steps) <= 1 + 3 * max_iterations
    /\ \A i \in (Len(steps) - 2)..Len(steps) : ~steps[i].changed

OneMorePassIdle(k, p) == SameKnowledge(p.kb, k) /\ ~p.changed

recorded_passers(e) ==
    IF e.suggester = ai_player_number THEN passers(e)
    ELSE passers(e) \ {ai_player_number}

Contradicts(b, e) ==
    \/ \E p \in recorded_passers(e) : suggested(e) \cap b.player_has[p] # {}
    \/ /\ e.card_shown # NoCard
       /\ \/ e.card_shown \in b.player_lacks[e.refuter]
          \/ \E q \in Players \ {e.refuter} : e.card_shown \in b.player_has[q]

\* C20: a handler call whose event contradicts the ownership facts (a card
\* lacked by a player proven to hold it, held by a player proven to lack it,
\* or held by two players) reports an error to its caller.
C20_ContradictionSurfaced ==
    (EventHandled /\ Contradicts(steps[1].before, last_suggestion)) => raised

\* Step i of the last call collapsed possible sets that were already the three
\* singletons of a triple to another triple.
ConflictingCollapse(i) ==
    /\ steps[i].collapse
    /\ is_solution_known(steps[i].before)
    /\ ~SamePossible(steps[i].before, steps[i].after)

\* C21: when a handler or its log replay collapses possible sets that are
\* already collapsed to a triple T to another triple, the call reports an
\* error and the possible sets are still those of T when it ends.
C21_ConflictSurfaced ==
    \A i \in DOMAIN steps :
        ConflictingCollapse(i) =>
            raised /\ SamePossible(steps[i].before, KB)

\* C22 (no partial application): a handler call that fails leaves
\* suggestion_history, my_cards, player_has, player_lacks, the possible sets
\* and at_least_one_constraints exactly as they were before the call.
C22_NoPartialApplication ==
    (EventHandled /\ raised) => KB = steps[1].before

\* The event names a card or a player outside the configured universe. Every
\* handler records its arguments in the log before anything else, so the last
\* entry of the log is the event of the last call.
NamesUnknown(e) ==
    \/ suggested(e) \cap all_cards # suggested(e)
    \/ e.suggester \notin Players
    \/ e.refuter \notin Players \cup {NoPlayer}
    \/ passers(e) \cap Players # passers(e)

SameHoldings(k1, k2) ==
    /\ k1.my_cards = k2.my_cards
    /\ k1.player_has = k2.player_has
    /\ k1.player_lacks = k2.player_lacks

\* C23 (unknown identifiers rejected): no add_own_card call puts a name that
\* is no card into my_cards or player_has, and a handler call whose event names
\* an unknown card or an unknown player reports an error and leaves my_cards,
\* player_has and player_lacks as they were.
C23_UnknownRejected ==
    /\ my_cards \subseteq all_cards
    /\ \A p \in Players : player_has[p] \subseteq all_cards
    /\ (EventHandled /\ NamesUnknown(last_suggestion)) =>
           raised /\ SameHoldings(steps[1].before, KB)

\* C24 (the AI accuses only when certain, and is right): in every step of a
\* game in which the AI makes its accusation, is_solution_known is true before
\* the step, the accused triple is get_solution and is the sealed solution; no
\* step eliminates the AI.
C24_AccusesOnlyWhenCertain ==
    [][/\ (has_accused'[ai_player_number] /\ ~has_accused[ai_player_number]) =>
              /\ is_solution_known(KB)
              /\ accusation' = <<ai_player_number>> \o get_solution(KB)
              /\ correct(accusation'[2], accusation'[3], accusation'[4])
              /\ game_over'
       /\ ~eliminated'[ai_player_number]]_vars

\* C24 witness: the AI has accused, after another player was eliminated by a
\* wrong accusation.
C24_Witness ==
    /\ has_accused[ai_player_number]
    /\ accusation[1] = ai_player_number
    /\ \E p \in Players \ {ai_player_number} : eliminated[p]

\* C25 (my_cards is fixed after the deal): a handler call leaves my_cards as
\* it was, in its direct facts and in every rule application of its
\* fixed-point pass; only add_own_card and add_own_cards change my_cards.
C25_MyCardsFixed ==
    [][steps'[1].rule = "event" =>
           /\ my_cards' = my_cards
           /\ \A i \in DOMAIN steps' :
                  /\ steps'[i].before.my_cards = my_cards
                  /\ steps'[i].after.my_cards = my_cards]_vars

\* C25 witness: a handler returned after constraint resolution declared a
\* holder, in a knowledge base that holds the AI's cards.
C25_Witness ==
    /\ EventHandled
    /\ my_cards # {}
    /\ \E i \in DOMAIN steps : steps[i].rule = "resolve" /\ steps[i].changed

\* The passes run_deduction made in the last call, and the steps of pass j.
passes_made == (Len(steps) - 1) \div 3

pass_changed(j) ==
    \E i \in (3 * j - 1)..(3 * j + 1) : steps[i].changed

\* C26 (the driver terminates): in every handler call that reaches
\* run_deduction, for valid and for contradictory logs, run_deduction makes at
\* least one and at most 20 passes, each pass applies log replay, constraint
\* resolution and unique holder in this order, every pass but the last
\* reported a change, and the last pass reported none unless it is the 20th.
C26_DriverTerminates ==
    (EventHandled /\ ~raised) =>
        /\ Len(steps) = 1 + 3 * passes_made
        /\ passes_made >= 1
        /\ passes_made <= max_iterations
        /\ \A j \in 1..passes_made :
               /\ steps[3 * j - 1].rule = "replay"
               /\ steps[3 * j].rule = "resolve"
               /\ steps[3 * j + 1].rule = "unique"
               /\ steps[3 * j].before = steps[3 * j - 1].after
               /\ steps[3 * j + 1].before = steps[3 * j].after
               /\ j < passes_made => pass_changed(j)
               /\ (j = passes_made /\ j < max_iterations) => ~pass_changed(j)
        /\ KB = steps[Len(steps)].after

\* C26 witness: a log with two contradictory unrefuted suggestions kept log
\* replay changing the possible sets until the 20th pass.
C26_Witness ==
    /\ EventHandled
    /\ passes_made = max_iterations
    /\ pass_changed(max_iterations)

\* Constraint (player, cards) tells nothing more: it has no card left, or each
\* of its cards is already in player_has or player_lacks of the player, or the
\* player is already proven to hold one of its cards.
Uninformative(k, constraint) ==
    \/ constraint.cards = {}
    \/ constraint.cards \subseteq
           k.player_has[constraint.player] \cup k.player_lacks[constraint.player]
    \/ constraint.cards \cap k.player_has[constraint.player] # {}

\* C27 (resolved or uninformative constraints are dropped): when a handler
\* returns, at_least_one_constraints holds no constraint whose card set is
\* empty, whose every card is in player_has or player_lacks of its player, or
\* that is already satisfied by a card its player is proven to hold.
C27_ConstraintsDropped ==
    (EventHandled /\ ~raised) =>
        \A j \in DOMAIN at_least_one_constraints :
            ~Uninformative(KB, at_least_one_constraints[j])

\* The players other than the viewer that are not known to lack the card.
not_lacking(k, card) ==
    {p \in Players \ {ai_player_number} : card \notin k.player_lacks[p]}

\* A card the unique holder rule applies to: no proven holder, not the
\* viewer's, no solution candidate, and one player left who may hold it.
HolderPending(k, card) ==
    /\ \A p \in Players : card \notin k.player_has[p]
    /\ card \notin k.my_cards
    /\ card \notin solution_candidates(k)
    /\ Cardinality(not_lacking(k, card)) = 1

\* C28 (unique remaining holder is applied): when a handler returns, no card
\* is without a proven holder, outside my_cards, outside the possible sets and
\* lacked by all players other than the viewer but one.
C28_UniqueHolderApplied ==
    (EventHandled /\ ~raised) => \A card \in all_cards : ~HolderPending(KB, card)

\* C28 witness: the direct facts of an event left such a card, and the unique
\* holder rule gave it to the one remaining player before the handler
\* returned.
C28_Witness ==
    /\ EventHandled
    /\ \E card \in all_cards :
           /\ HolderPending(steps[1].after, card)
           /\ \E i \in DOMAIN steps :
                  /\ steps[i].rule = "unique"
                  /\ steps[i].changed
                  /\ \E p \in Players \ {ai_player_number} :
                         /\ card \notin steps[i].before.player_has[p]
                         /\ card \in player_has[p]

\* A card nobody can hold: not the viewer's, without a proven holder, and
\* lacked by every other player.
NoPossibleHolder(k, card) ==
    /\ card \notin k.my_cards
    /\ \A p \in Players : card \notin k.player_has[p]
    /\ \A p \in Players \ {ai_player_number} : card \in k.player_lacks[p]

InCategorySet(k, card) ==
    /\ card \in CHARACTERS => card \in k.possible_characters
    /\ card \in WEAPONS => card \in k.possible_weapons
    /\ card \in ROOMS => card \in k.possible_rooms

ZeroHoldersCandidate(k) ==
    \A card \in all_cards : NoPossibleHolder(k, card) => InCategorySet(k, card)

\* C29 (zero possible holders implies solution candidate): in every state the
\* knowledge base goes through in a game, a card that is not in my_cards, in
\* no player_has and in player_lacks of every player other than the viewer is
\* in the possible set of its category.
C29_ZeroHoldersCandidate == EveryStage(ZeroHoldersCandidate)

\* C29 witness: a handler returned with a card nobody can hold while the
\* solution is not yet known.
C29_Witness ==
    /\ EventHandled
    /\ ~is_solution_known(KB)
    /\ \E card \in all_cards : NoPossibleHolder(KB, card)

Exclusive(k) ==
    /\ \A p, q \in Players : p # q => k.player_has[p] \cap k.player_has[q] = {}
    /\ k.my_cards \subseteq k.player_has[ai_player_number]

\* C30 (ownership is exclusive in the store): in every state the knowledge
\* base goes through in a game, no card is in player_has of two different
\* players, and every card of my_cards is in player_has of the viewer and of
\* no other player.
C30_ExclusiveOwnership == EveryStage(Exclusive)

\* C30 witness: a handler returned with proven cards for both other players,
\* one of them declared by constraint resolution.
C30_Witness ==
    /\ EventHandled
    /\ \A p \in Players : player_has[p] # {}
    /\ \E i \in DOMAIN steps : steps[i].rule = "resolve" /\ steps[i].changed

\* The lacks facts of k2 that k1 does not have.
new_lacks(k1, k2) ==
    {<<p, card>> \in Players \X all_cards :
        card \in k2.player_lacks[p] /\ card \notin k1.player_lacks[p]}

\* The lacks facts withdrawn between k1 and k2 are cards k2 newly records as
\* held by the same player.
LacksOnlyGiveWay(k1, k2) ==
    \A p \in Players :
        \A card \in k1.player_lacks[p] \ k2.player_lacks[p] :
            card \in k2.player_has[p] /\ card \notin k1.player_has[p]

DeductionStep(i) == steps[i].rule \in {"replay", "resolve", "unique"}

\* C31 (deduction never creates a lacks fact): no rule application of
\* run_deduction adds a card to any player_lacks[p], and a card leaves
\* player_lacks[p] only when the same step adds it to player_has[p]; so a
\* proof that p holds c records nothing about the other players. The new
\* lacks facts of a handler call are suggested cards of the passers of the
\* event it ingests.
C31_DeductionAddsNoLacks ==
    /\ \A i \in DOMAIN steps :
           DeductionStep(i) =>
               /\ new_lacks(steps[i].before, steps[i].after) = {}
               /\ LacksOnlyGiveWay(steps[i].before, steps[i].after)
    /\ EventHandled =>
           /\ \A f \in new_lacks(steps[1].before, steps[1].after) :
                  /\ f[1] \in passers(last_suggestion)
                  /\ f[2] \in suggested(last_suggestion)
           /\ new_lacks(steps[1].before, KB)
                  = new_lacks(steps[1].before, steps[1].after)

\* C31 witness: a rule application of run_deduction proved that a player holds
\* a card while another player other than the AI is not known to lack it, and
\* the call recorded a lacks fact of a passer.
C31_Witness ==
    /\ EventHandled
    /\ new_lacks(steps[1].before, steps[1].after) # {}
    /\ \E i \in DOMAIN steps :
           /\ DeductionStep(i)
           /\ \E p \in Players, card \in all_cards :
                  /\ card \in steps[i].after.player_has[p]
                  /\ card \notin steps[i].before.player_has[p]
                  /\ \E q \in Players \ {p, ai_player_number} :
                         card \notin player_lacks[q]

\* The i-th player after the suggester in turn order.
after(suggester, i) == ((suggester + i - 1) % num_players) + 1

Holds(player, e) == hands[player] \cap suggested(e) # {}

\* Entry e and shown_card are what the refutation protocol yields from the
\* hands.
Protocol(e) ==
    LET n == Len(e.players_who_passed)
    IN /\ \A i \in 1..n :
              /\ e.players_who_passed[i] = after(e.suggester, i)
              /\ ~Holds(e.players_who_passed[i], e)
       /\ IF e.refuter = NoPlayer
          THEN /\ n = num_players - 1
               /\ shown_card = NoCard
          ELSE /\ n < num_players - 1
               /\ e.refuter = after(e.suggester, n + 1)
               /\ shown_card \in hands[e.refuter] \cap suggested(e)

\* C32 (refutation protocol): after every make_suggestion of a game, the
\* players who passed are the players after the suggester in turn order up to
\* the refuter (all the other players when nobody refutes) and hold none of
\* the three cards; the refuter is the next player in that order, the first
\* one who holds a suggested card; the card shown is a suggested card of the
\* refuter's hand; eliminated players are asked and refute like the others.
C32_RefutationProtocol ==
    suggestion_history # <<>> => Protocol(last_suggestion)

\* C32 witness: an eliminated player refuted a suggestion after a player
\* passed.
C32_Witness ==
    /\ suggestion_history # <<>>
    /\ last_suggestion.refuter # NoPlayer
    /\ eliminated[last_suggestion.refuter]
    /\ Len(last_suggestion.players_who_passed) = 1
    /\ shown_card # NoCard

\* An eliminated player passed, and nobody refuted.
C32_WitnessPassed ==
    /\ suggestion_history # <<>>
    /\ last_suggestion.refuter = NoPlayer
    /\ \E i \in DOMAIN last_suggestion.players_who_passed :
           eliminated[last_suggestion.players_who_passed[i]]

\* What the knowledge base would hold had the refuter of entry e shown `card`.
told_after(b, e, card) ==
    observe_suggestion(b, e.suggester, e.character, e.weapon, e.room,
                       e.refuter, card_told(e.suggester, card),
                       e.players_who_passed).kb

OthersRefuted(e) ==
    /\ e.suggester # ai_player_number
    /\ e.refuter # NoPlayer

\* C33 (the AI does not learn a card shown to someone else): after a
\* suggestion of another player that was refuted, the knowledge base is the
\* one the handler yields for every matching card the refuter could have
\* shown, and its log entry carries no card; a log entry carries a card only
\* when the AI suggested, and then the card that was shown.
C33_ShownCardHidden ==
    EventHandled =>
        /\ OthersRefuted(last_suggestion) =>
               /\ last_suggestion.card_shown = NoCard
               /\ \A card \in matching_cards(hands, last_suggestion.refuter,
                                             suggested(last_suggestion)) :
                      told_after(steps[1].before, last_suggestion, card) = KB
        /\ last_suggestion.card_shown # NoCard =>
               /\ last_suggestion.suggester = ai_player_number
               /\ last_suggestion.card_shown = shown_card

\* C33 witness: another player's suggestion was refuted by a player, not the
\* AI, that holds two or more of the suggested cards and showed one of them.
C33_Witness ==
    /\ EventHandled
    /\ OthersRefuted(last_suggestion)
    /\ last_suggestion.refuter # ai_player_number
    /\ Cardinality(matching_cards(hands, last_suggestion.refuter,
                                  suggested(last_suggestion))) >= 2
    /\ shown_card \in hands[last_suggestion.refuter]

\* C34 (the AI never suggests its own cards): no suggestion the AI makes in a
\* game names a card of my_cards.
C34_NeverSuggestsOwnCard ==
    (EventHandled /\ last_suggestion.suggester = ai_player_number) =>
        suggested(last_suggestion) \cap my_cards = {}

\* The AI's turn begins, the solution is known to it and its accusation is
\* not used.
CertainAtTurnStart ==
    /\ Playing
    /\ current_player = ai_player_number
    /\ ~eliminated[ai_player_number]
    /\ ~has_accused[ai_player_number]
    /\ is_solution_known(KB)

\* C35 (the AI accuses at the start of its turn once certain): a turn of the
\* AI that begins with is_solution_known true, the AI not eliminated and its
\* accusation unused is the accusation of get_solution and nothing else: no
\* suggestion is made, the knowledge base stays as it is, and the turn is
\* over.
C35_AccusesAtTurnStart ==
    [][CertainAtTurnStart =>
           /\ accusations_made'[ai_player_number]
                  = accusations_made[ai_player_number] + 1
           /\ has_accused'[ai_player_number]
           /\ accusation' = <<ai_player_number>> \o get_solution(KB)
           /\ UNCHANGED <<knowledge, shown_card>>
           /\ turn' = turn + 1
           /\ current_player' = next_player]_vars

\* C35 witness: the AI accused in the turn after it learned the solution from
\* another player's suggestion.
C35_Witness ==
    /\ accusations_made[ai_player_number] = 1
    /\ accusation # <<>> /\ accusation[1] = ai_player_number
    /\ suggestion_history # <<>>
    /\ last_suggestion.suggester # ai_player_number
    /\ ~is_solution_known(steps[1].before)
    /\ is_solution_known(KB)

\* C36 (at most one suggestion per turn): every play_turn, of a human or of
\* the AI, calls make_suggestion at most once and so appends at most one entry
\* to the log, whether the player was dragged into a room, took a secret
\* passage or entered a room by movement.
C36_OneSuggestionPerTurn ==
    [][turn' = turn + 1 =>
           /\ last_turn'.suggestions <= 1
           /\ Len(suggestion_history')
                  = Len(suggestion_history) + last_turn'.suggestions]_vars

\* C36 witness: the AI, dragged into a room, suggested there and then walked
\* into another room, where it did not suggest again.
C36_Witness ==
    /\ last_turn.suggestions = 1
    /\ last_turn.entered # NoRoom
    /\ suggestion_history # <<>>
    /\ last_suggestion.suggester = ai_player_number
    /\ current_player = (ai_player_number % num_players) + 1
    /\ last_suggestion.room # last_turn.entered

\* The same turn of a human player.
C36_WitnessHuman ==
    /\ last_turn.suggestions = 1
    /\ last_turn.entered # NoRoom
    /\ suggestion_history # <<>>
    /\ last_suggestion.suggester # ai_player_number
    /\ current_player = (last_suggestion.suggester % num_players) + 1
    /\ last_suggestion.room # last_turn.entered

\* Player p accuses in this step.
Accuses(p) == accusations_made'[p] = accusations_made[p] + 1

\* C37 (one accusation per player): over a game each player calls
\* make_accusation at most once, and has_accused tells whether it did; the
\* accuser is the current player, not eliminated; a wrong accusation sets its
\* eliminated flag; the turn of an eliminated player is skipped: it makes no
\* suggestion and no accusation, and leaves the knowledge base and the flags
\* of every player as they are.
C37_OneAccusation ==
    [][/\ \A p \in Players :
              /\ accusations_made'[p] <= 1
              /\ has_accused'[p] = (accusations_made'[p] = 1)
              /\ accusations_made'[p] # accusations_made[p] =>
                     /\ Accuses(p)
                     /\ p = current_player /\ ~eliminated[p]
                     /\ accusation'[1] = p
                     /\ ~correct(accusation'[2], accusation'[3], accusation'[4])
                            => eliminated'[p]
       /\ (dealt /\ eliminated[current_player]) =>
              /\ last_turn'.skipped /\ last_turn'.suggestions = 0
              /\ UNCHANGED <<knowledge, shown_card, has_accused, eliminated,
                             game_over, accusation, accusations_made>>]_vars

\* C37 witness: a player was eliminated by a wrong accusation, the game went
\* on, and the player's next turn was skipped.
C37_Witness ==
    \E p \in Players :
        /\ eliminated[p] /\ accusations_made[p] = 1
        /\ accusation[1] = p
        /\ ~correct(accusation[2], accusation[3], accusation[4])
        /\ ~game_over
        /\ last_turn.skipped
        /\ current_player = (p % num_players) + 1

\* C38 (the deal partitions the non-solution cards): after _setup_solution the
\* solution holds one character, one weapon and one room; no hand holds a
\* solution card; every other card is in exactly one hand, and the hands hold
\* nothing else; the sizes of any two hands differ by at most one.
C38_DealPartitions ==
    solution # NoSolution =>
        /\ solution.character \in CHARACTERS
        /\ solution.weapon \in WEAPONS
        /\ solution.room \in ROOMS
        /\ \A p \in DOMAIN hands :
               /\ hands[p] \subseteq all_cards
               /\ hands[p] \cap {solution.character, solution.weapon,
                                 solution.room} = {}
        /\ \A card \in all_cards \ {solution.character, solution.weapon,
                                    solution.room} :
               Cardinality({p \in DOMAIN hands : card \in hands[p]}) = 1
        /\ \A p, q \in DOMAIN hands :
               Cardinality(hands[p]) <= Cardinality(hands[q]) + 1

\* C38 witness: a deal that does not come out even, one hand holding a card
\* more than another.
C38_Witness ==
    /\ solution # NoSolution
    /\ \E p, q \in DOMAIN hands :
           /\ Cardinality(hands[p]) = Cardinality(hands[q]) + 1
           /\ hands[q] # {}

\* The loop of play is at a turn: the game is set up, not over, and fewer than
\* max_turns turns were played.
LoopRuns == dealt /\ ~game_over /\ turn < max_turns

\* A step of the loop: one turn of the current player.
LoopStep ==
    \/ turn' # turn
    \/ current_player' # current_player
    \/ game_over' # game_over
    \/ eliminated' # eliminated
    \/ has_accused' # has_accused
    \/ suggestion_history' # suggestion_history

\* The turns that end without a suggestion.
TurnWithoutSuggestion ==
    \/ SkipEliminated
    \/ AiAccuses
    \/ AiEndsInHallway
    \/ HumanAccuses
    \/ HumanEndsInHallway

PlayStep ==
    /\ LoopStep =>
           /\ LoopRuns
           /\ turn' = turn + 1
           /\ current_player' = (current_player % num_players) + 1
    /\ game_over' # game_over =>
           /\ game_over'
           /\ accusations_made'[current_player] =
                  accusations_made[current_player] + 1
           /\ accusation'[1] = current_player
           /\ \/ /\ accusation'[2] = solution.character
                 /\ accusation'[3] = solution.weapon
                 /\ accusation'[4] = solution.room
                 /\ eliminated' = eliminated
              \/ /\ eliminated'[current_player]
                 /\ Cardinality({p \in Players : ~eliminated'[p]}) <= 1

\* C39 (the game loop ends): play runs at most max_turns = 100 turns; after the
\* set-up a turn is taken while game_over is unset and fewer than 100 turns
\* were played, and only then; every step of the loop is one turn, which adds
\* one to the turn count and moves current_player to the next player (mod
\* num_players); game_over is only ever set, and only by an accusation of the
\* current player that is correct or that is wrong and leaves at most one
\* non-eliminated player.
C39_GameLoopEnds ==
    /\ [](turn <= max_turns)
    /\ [](LoopRuns => ENABLED TurnWithoutSuggestion)
    /\ [][PlayStep]_vars

\* C39 witness: the loop stopped by its turn limit: 100 turns played and the
\* game not over, after an accusation eliminated a player.
C39_Witness ==
    /\ turn = max_turns
    /\ ~game_over
    /\ \E p \in Players : eliminated[p]

\* C39 witness: the loop stopped before its turn limit by game_over.
C39_WitnessOver ==
    /\ game_over
    /\ turn < max_turns
    /\ \A p \in Players : ~eliminated[p]

====
